---------------------------- MODULE Spec2Model ----------------------------
(***************************************************************************)
(* A model of the schema-generation pipeline of seo-schema-generator:      *)
(* the MultiProviderSchemaService orchestrator (result cache, provider     *)
(* loop with per-provider timeout race, fallback synthesis, truncation),   *)
(* the provider stages it dispatches to (OpenRouter, legacy Gemini,        *)
(* templates) with their validation, and the content classifiers.          *)
(*                                                                         *)
(* Abstractions.  A page text is a record: the identity of the whole text, *)
(* the identity of its first 1000 characters, its length, the lower-case   *)
(* words it contains and whether it holds a "by <name>" byline.  A string  *)
(* that is meant to hold JSON is a record [fmt, val]: fmt says how the     *)
(* text is written ("min", "pretty", "fenced" in ```json, or "garbage"     *)
(* that no parser accepts) and val is the value it denotes.  A JSON-LD     *)
(* object is reduced to its @context, its @type and the set of property   *)
(* names it holds with a truthy value.  Time is in milliseconds.           *)
(***************************************************************************)
EXTENDS Integers, Sequences, FiniteSets, TLC

(***************************************************************************)
(* Bounds of the model.                                                    *)
(***************************************************************************)
MaxCalls == 2          \* generateSchemas calls made in one behaviour
MaxUpdates == 1        \* updateConfig calls made in one behaviour
MaxTicks == 2          \* passages of time in one behaviour
MaxLLMSchemas == 1     \* schemas in one response of the language model
MaxAnalyses == 1       \* handleAnalyze calls made in one behaviour
MaxScrapes == 1        \* scrapePageContent calls made in one behaviour
MaxBrowserRequests == 3  \* requests one scrape sends to the browser endpoint
MaxMutations == 1      \* assignments a caller makes to the object getConfig returned

(***************************************************************************)
(* Program constants.                                                      *)
(***************************************************************************)
CACHE_TTL == 5 * 60 * 1000
CACHE_KEY_CHARS == 1000
MIN_DEFAULT_TEXT == 200
TEMPLATE_LIMIT == 3
\* the granularity of the passage of time: half a TTL
TickMs == CACHE_TTL \div 2

None == "none"

(***************************************************************************)
(* Sequence helpers.                                                       *)
(***************************************************************************)
Range(s) == {s[i] : i \in 1..Len(s)}

Min(a, b) == IF a <= b THEN a ELSE b

\* Array.prototype.slice(0, n)
Slice(s, n) == SubSeq(s, 1, Min(Len(s), n))

\* [...new Set(arr)]: the first occurrence of each element, in order
RECURSIVE Dedupe(_)
Dedupe(s) ==
  IF s = <<>> THEN <<>>
  ELSE LET init == Dedupe(SubSeq(s, 1, Len(s) - 1))
           last == s[Len(s)]
       IN IF last \in Range(init) THEN init ELSE Append(init, last)

\* Array.prototype.filter
RECURSIVE SelectSeqIdx(_, _)
SelectSeqIdx(s, keep) ==
  IF s = <<>> THEN <<>>
  ELSE LET rest == SelectSeqIdx(SubSeq(s, 1, Len(s) - 1), keep)
       IN IF Len(s) \in keep THEN Append(rest, s[Len(s)]) ELSE rest

\* all sequences over S of length at most n
SeqsUpTo(S, n) == UNION {[1..k -> S] : k \in 0..n}

(***************************************************************************)
(* Inputs: page texts, website profiles, URLs.                             *)
(***************************************************************************)
TextTestimonial ==
  [id |-> "testimonial", prefix |-> "testimonial", len |-> 120,
   words |-> {"testimonial"}, byline |-> TRUE]

\* two long texts that agree on their first 1000 characters
TextLongA ==
  [id |-> "longA", prefix |-> "long", len |-> 1500,
   words |-> {}, byline |-> FALSE]

TextLongB ==
  [id |-> "longB", prefix |-> "long", len |-> 1500,
   words |-> {"blog"}, byline |-> FALSE]

\* a short text no classifier recognises
TextShort ==
  [id |-> "short", prefix |-> "short", len |-> 40,
   words |-> {}, byline |-> FALSE]

\* the empty string, which JavaScript treats as false
TextEmpty ==
  [id |-> "", prefix |-> "", len |-> 0,
   words |-> {}, byline |-> FALSE]

\* a caller that hands no profile object at all (JavaScript null/undefined)
NullInfo == [null |-> TRUE, companyName |-> "", founderName |-> "", companyLogoUrl |-> ""]

EmptyInfo == [null |-> FALSE, companyName |-> "", founderName |-> "", companyLogoUrl |-> ""]

FullInfo ==
  [null |-> FALSE, companyName |-> "Acme", founderName |-> "Ada",
   companyLogoUrl |-> "https://acme.example/logo.png"]

\* the (text, profile) pairs generateSchemas is called with
Inputs ==
  {<<TextTestimonial, FullInfo>>, <<TextLongA, FullInfo>>, <<TextLongB, FullInfo>>,
   <<TextShort, FullInfo>>, <<TextLongA, NullInfo>>, <<TextEmpty, FullInfo>>}

\* a URL: its text and the lower-case words it contains
UrlPlain == [id |-> "https://site.example/p", words |-> {}]

Urls == {UrlPlain}

\* String.prototype.includes over the lower-cased text or URL
Includes(t, keyword) == keyword \in t.words

\* pageText.substring(0, 1000)
Substring1000(text) == IF text.len <= CACHE_KEY_CHARS THEN text.id ELSE text.prefix


(***************************************************************************)
(* Content classifiers.                                                    *)
(***************************************************************************)
\* CONTENT_PATTERNS of openRouterService.ts (the currency signs after "$"
\* are written by name)
OR_Keywords ==
  [testimonial |-> {"testimonial", "testimonials", "client says", "customer says",
                    "what our clients say", "check what our clients say",
                    "client feedback", "customer feedback", "client review",
                    "customer review"},
   article |-> {"article", "blog", "post", "news", "story", "opinion", "tutorial", "guide"},
   product |-> {"buy", "price", "product", "shop", "cart", "order", "purchase",
                "$", "euro sign", "pound sign", "rupee sign"},
   recipe |-> {"recipe", "ingredients", "cook", "bake", "prep time", "servings",
               "cooking time"},
   faq |-> {"faq", "question", "answer", "how to", "what is", "why", "when", "where"},
   howto |-> {"step", "instructions", "tutorial", "how to", "guide", "process", "method"},
   localBusiness |-> {"address", "phone", "location", "hours", "contact", "visit",
                      "store", "restaurant"},
   event |-> {"event", "date", "time", "venue", "ticket", "register", "conference",
              "meeting"},
   review |-> {"review", "rating", "stars", "opinion", "feedback"}]

\* CONTENT_PATTERNS of geminiService.ts: the same but for a longer recipe list
Gemini_Keywords ==
  [OR_Keywords EXCEPT
     !.recipe = {"recipe", "ingredients", "cook", "bake", "prep time", "servings",
                 "cooking time", "method", "instructions", "directions", "steps",
                 "preparation", "how to", "tablespoon", "teaspoon", "cup", "chopped",
                 "minced", "sliced", "diced", "organic", "basmati rice", "curry",
                 "vegetable", "cooking", "simmer", "boil", "heat", "add", "stir",
                 "season", "serve"}]

\* the schemaTypes of CONTENT_PATTERNS (the same in both services)
PatternTypes ==
  [testimonial |-> <<"Review", "Testimonial">>,
   article |-> <<"BlogPosting", "NewsArticle", "Article">>,
   product |-> <<"Product", "Offer">>,
   recipe |-> <<"Recipe">>,
   faq |-> <<"FAQPage">>,
   howto |-> <<"HowTo">>,
   localBusiness |-> <<"LocalBusiness", "Restaurant", "Store">>,
   event |-> <<"Event">>,
   review |-> <<"Review", "AggregateRating">>]

OR_PriorityOrder ==
  <<"product", "article", "faq", "howto", "review", "testimonial", "recipe",
    "event", "localBusiness">>

Gemini_PriorityOrder ==
  <<"testimonial", "review", "product", "recipe", "faq", "howto", "event",
    "localBusiness", "article">>

HasKeywords(keywords, text, url) ==
  \E k \in keywords : Includes(text, k) \/ Includes(url, k)

\* a loop that returns early for 'product' and 'article' only and
\* otherwise goes through every category
RECURSIVE OR_LoopToTheEnd(_, _, _, _)
OR_LoopToTheEnd(i, detected, text, url) ==
  IF i > Len(OR_PriorityOrder) THEN [ret |-> FALSE, types |-> detected]
  ELSE LET category == OR_PriorityOrder[i]
       IN IF HasKeywords(OR_Keywords[category], text, url)
          THEN LET pushed == detected \o PatternTypes[category]
               IN IF category \in {"product", "article"}
                  THEN [ret |-> TRUE, types |-> Slice(Dedupe(pushed), 2)]
                  ELSE OR_LoopToTheEnd(i + 1, pushed, text, url)
          ELSE OR_LoopToTheEnd(i + 1, detected, text, url)

\* the loop of openRouterService.analyzeContentForSchemaTypes from category i
\* on; the result is [ret |-> returned early, types |-> detectedTypes]
RECURSIVE OR_Loop(_, _, _, _)
OR_Loop(i, detected, text, url) ==
  IF i > Len(OR_PriorityOrder) THEN [ret |-> FALSE, types |-> detected]
  ELSE LET category == OR_PriorityOrder[i]
       IN IF HasKeywords(OR_Keywords[category], text, url)
          THEN LET pushed == detected \o PatternTypes[category]
               IN IF category \in {"product", "article"}
                  THEN [ret |-> TRUE, types |-> Slice(Dedupe(pushed), 2)]
                  ELSE IF Len(pushed) >= 2
                       THEN [ret |-> TRUE, types |-> Dedupe(pushed)]
                       ELSE OR_Loop(i + 1, pushed, text, url)
          ELSE OR_Loop(i + 1, detected, text, url)

\* a classifier whose default starts at 200 characters
OR_DefaultAtThreshold(text, url) ==
  LET r == OR_Loop(1, <<>>, text, url)
  IN IF r.ret THEN r.types
     ELSE LET d == IF r.types = <<>> /\ text.len >= MIN_DEFAULT_TEXT
                   THEN <<"BlogPosting">> ELSE r.types
          IN Slice(Dedupe(d), 3)

OR_analyzeContentForSchemaTypes(text, url) ==
  LET r == OR_Loop(1, <<>>, text, url)
  IN IF r.ret THEN r.types
     ELSE LET d == IF r.types = <<>> /\ text.len > MIN_DEFAULT_TEXT
                   THEN <<"BlogPosting">> ELSE r.types
          IN Slice(Dedupe(d), 3)

\* the loop of geminiService.analyzeContentForSchemaTypes
RECURSIVE Gemini_Loop(_, _, _, _)
Gemini_Loop(i, detected, text, url) ==
  IF i > Len(Gemini_PriorityOrder) THEN [ret |-> FALSE, types |-> detected]
  ELSE LET category == Gemini_PriorityOrder[i]
       IN IF HasKeywords(Gemini_Keywords[category], text, url)
          THEN LET pushed == detected \o PatternTypes[category]
                   hasArticleKeywords ==
                     \E k \in Gemini_Keywords.article :
                        Includes(text, k) /\ k \notin {"review", "opinion"}
               IN IF category = "testimonial" /\ ~hasArticleKeywords
                  THEN [ret |-> TRUE, types |-> Dedupe(pushed)]
                  ELSE Gemini_Loop(i + 1, pushed, text, url)
          ELSE Gemini_Loop(i + 1, detected, text, url)

Gemini_analyzeContentForSchemaTypes(text, url) ==
  LET r == Gemini_Loop(1, <<>>, text, url)
  IN IF r.ret THEN r.types
     ELSE Dedupe(IF r.types = <<>> /\ text.len > MIN_DEFAULT_TEXT
                 THEN <<"BlogPosting">> ELSE r.types)

\* MultiProviderSchemaService.detectSchemaTypes: its own pattern table, in
\* table order, one type per category
Detect_Order ==
  <<"testimonial", "article", "product", "faq", "howto", "localBusiness",
    "event", "review">>

Detect_Keywords ==
  [testimonial |-> {"testimonial", "client says", "customer says", "client feedback"},
   article |-> {"article", "blog", "post", "news", "story"},
   product |-> {"buy", "price", "product", "shop", "cart", "$"},
   faq |-> {"faq", "question", "answer", "how to", "what is"},
   howto |-> {"step", "instructions", "tutorial", "guide"},
   localBusiness |-> {"address", "phone", "location", "hours", "contact"},
   event |-> {"event", "date", "time", "venue", "ticket"},
   review |-> {"review", "rating", "stars", "opinion"}]

Detect_Type ==
  [testimonial |-> "Testimonial", article |-> "BlogPosting", product |-> "Product",
   faq |-> "FAQPage", howto |-> "HowTo", localBusiness |-> "LocalBusiness",
   event |-> "Event", review |-> "Review"]

RECURSIVE Detect_Loop(_, _, _, _)
Detect_Loop(i, detected, text, url) ==
  IF i > Len(Detect_Order) THEN detected
  ELSE LET category == Detect_Order[i]
       IN Detect_Loop(i + 1,
            IF HasKeywords(Detect_Keywords[category], text, url)
            THEN Append(detected, Detect_Type[category]) ELSE detected,
            text, url)

detectSchemaTypes(text, url) ==
  LET d == Detect_Loop(1, <<>>, text, url)
  IN Dedupe(IF d = <<>> /\ text.len > MIN_DEFAULT_TEXT THEN <<"BlogPosting">> ELSE d)

(***************************************************************************)
(* JSON strings and JSON-LD values.                                        *)
(***************************************************************************)
\* @type: a scalar name (arr = FALSE, one name), an array of names, or
\* missing (no name)
ScalarType(t) == [arr |-> FALSE, names |-> <<t>>]

NoType == [arr |-> FALSE, names |-> <<>>]

\* a parsed JSON value.  kind is "object" for what typeof calls an object
\* (null excepted) and "scalar" otherwise; ctx says that @context is a string
\* containing "schema.org"; fields are the properties whose value is truthy,
\* blank those present with a falsy value (an empty string, 0, null), odd
\* the truthy ones, @context included, whose value is neither a string nor
\* an array (a number, an object); httpUrl says that a string url starts
\* with "http"; orig is the raw string a diagnostic wrapper quotes
JValue(kind, ctx, type, fields, blank, odd, httpUrl) ==
  [kind |-> kind, ctx |-> ctx, type |-> type, fields |-> fields, blank |-> blank,
   odd |-> odd, httpUrl |-> httpUrl, orig |-> None]

\* a JSON-LD object all of whose properties are non-empty strings, arrays
\* or objects where the schema.org vocabulary expects them
JObject(ctx, type, fields) == JValue("object", ctx, type, fields, {}, {}, TRUE)

NoValue == JObject(FALSE, NoType, {})

\* a string no JSON parser accepts
Garbage == [fmt |-> "garbage", val |-> NoValue]

\* s.trim().replace(/^```json\s*/, '').replace(/```\s*$/, '').trim()
CleanJsonLdString(s) == IF s.fmt = "fenced" THEN [s EXCEPT !.fmt = "min"] ELSE s

\* JSON.parse: ok = FALSE when it throws a SyntaxError
JSONparse(s) ==
  IF s.fmt \in {"min", "pretty"}
  THEN [ok |-> TRUE, val |-> s.val]
  ELSE [ok |-> FALSE, val |-> NoValue]

\* JSON.stringify(value, null, 2)
JSONstringify(v) == [fmt |-> "pretty", val |-> v]

\* one entry of a schema list (RecommendedSchema); validationError <<>> is
\* the absent property, otherwise the messages the code joins into one string
SchemaEntry(schemaType, description, jsonLd, status, error) ==
  [schemaType |-> schemaType, description |-> description, jsonLd |-> jsonLd,
   validationStatus |-> status, validationError |-> error]

NoError == <<>>

\* a message: its fixed text and the name it interpolates ("" when none)
Msg(text) == <<text, "">>

(***************************************************************************)
(* validateSchema of openRouterService.ts.                                 *)
(***************************************************************************)
RuleTypes ==
  {"Article", "BlogPosting", "Product", "FAQPage", "HowTo", "LocalBusiness",
   "Event", "Review", "Testimonial"}

RequiredFields(schemaType) ==
  CASE schemaType \in {"Article", "BlogPosting"} -> <<"headline", "author", "datePublished">>
    [] schemaType = "Product" -> <<"name", "description">>
    [] schemaType = "FAQPage" -> <<"mainEntity">>
    [] schemaType = "HowTo" -> <<"name", "step">>
    [] schemaType = "LocalBusiness" -> <<"name", "address">>
    [] schemaType = "Event" -> <<"name", "startDate">>
    [] schemaType = "Review" -> <<"itemReviewed", "reviewRating">>
    [] schemaType = "Testimonial" -> <<"reviewBody", "author">>
    [] OTHER -> <<>>

RecommendedFields(schemaType) ==
  CASE schemaType \in {"Article", "BlogPosting"} -> <<"publisher", "description", "image">>
    [] schemaType = "Product" -> <<"brand", "offers", "image">>
    [] schemaType = "FAQPage" -> <<"name", "description">>
    [] schemaType = "HowTo" -> <<"description", "totalTime", "supply">>
    [] schemaType = "LocalBusiness" -> <<"telephone", "url", "openingHours">>
    [] schemaType = "Event" -> <<"location", "description", "organizer">>
    [] schemaType = "Review" -> <<"author", "reviewBody", "datePublished">>
    [] schemaType = "Testimonial" -> <<"datePublished", "itemReviewed">>
    [] OTHER -> <<>>

\* the fields of a list that the object lacks, in list order
Missing(list, schema) == SelectSeqIdx(list, {i \in 1..Len(list) : list[i] \notin schema.fields})

\* whether validateSchema ends in a TypeError: @context.includes (line 110)
\* and url.startsWith (line 148) are called on any truthy value
validateThrows(schema) ==
  /\ schema.kind = "object"
  /\ ("@context" \in schema.odd \/ ("url" \in schema.fields /\ "url" \in schema.odd))

\* what validateSchema returns when it returns
validateSchema(schema, schemaType) ==
  LET errors ==
        (IF ~schema.ctx THEN <<Msg("Missing or invalid @context property")>> ELSE <<>>)
        \o (IF schema.type.names = <<>> THEN <<Msg("Missing @type property")>> ELSE <<>>)
        \o [i \in 1..Len(Missing(RequiredFields(schemaType), schema)) |->
              <<"Missing required field", Missing(RequiredFields(schemaType), schema)[i]>>]
      warnings ==
        [i \in 1..Len(Missing(RecommendedFields(schemaType), schema)) |->
           <<"Missing recommended field", Missing(RecommendedFields(schemaType), schema)[i]>>]
        \o (IF "name" \in schema.fields \cap schema.odd
            THEN <<Msg("Name should be a string")>> ELSE <<>>)
        \o (IF "description" \in schema.fields \cap schema.odd
            THEN <<Msg("Description should be a string")>> ELSE <<>>)
        \o (IF "url" \in schema.fields /\ ~schema.httpUrl
            THEN <<Msg("URL should be a valid HTTP/HTTPS URL")>> ELSE <<>>)
      suggestions ==
        (IF "description" \notin schema.fields /\ "name" \in schema.fields
         THEN <<Msg("Consider adding a description field")>> ELSE <<>>)
        \o (IF "image" \notin schema.fields /\ schemaType \in {"Article", "Product"}
            THEN <<Msg("Consider adding an image for better rich results")>> ELSE <<>>)
  IN IF schema.kind # "object"
     THEN [isValid |-> FALSE, errors |-> <<Msg("Schema must be a valid JSON object")>>,
           warnings |-> <<>>, suggestions |-> <<>>]
     ELSE [isValid |-> errors = <<>>, errors |-> errors, warnings |-> warnings,
           suggestions |-> suggestions]

(***************************************************************************)
(* createFallbackSchema (the same in openRouterService.ts and              *)
(* geminiService.ts).  Called with a profile object.                       *)
(***************************************************************************)
FallbackFields(schemaType, text, info) ==
  {"name", "description"}
  \cup (IF schemaType \in {"BlogPosting", "Article", "NewsArticle"}
        THEN {"headline"}
             \cup (IF info.companyName # "" THEN {"publisher"} ELSE {})
             \cup (IF info.founderName # "" THEN {"author"} ELSE {})
        ELSE {})
  \cup (IF schemaType = "Product" /\ info.companyName # "" THEN {"brand"} ELSE {})
  \cup (IF schemaType \in {"Review", "Testimonial"}
        THEN {"reviewBody", "itemReviewed"}
             \cup (IF text.byline THEN {"author"} ELSE {})
        ELSE {})

createFallbackSchema(schemaType, text, info) ==
  SchemaEntry(schemaType, "Fallback schema generated from page content",
              JSONstringify(JObject(TRUE, ScalarType(schemaType),
                                    FallbackFields(schemaType, text, info))),
              "valid", NoError)

(***************************************************************************)
(* What a language model may answer: a list of raw schemas.  The shapes    *)
(* are relative to the type t the model was asked for first.               *)
(***************************************************************************)
Shapes == {"good", "wrongType", "garbage"}

\* every field a rule table could ask of type t, and the common ones
CompleteFields(t) == Range(RequiredFields(t)) \cup {"name", "description"}

RawSchema(shape, t) ==
  [schemaType |-> t,
   jsonLd |->
     CASE shape = "good" ->
            [fmt |-> "fenced", val |-> JObject(TRUE, ScalarType(t), CompleteFields(t))]
       [] shape = "wrongType" ->
            [fmt |-> "min", val |-> JObject(TRUE, ScalarType("Thing"), CompleteFields(t))]
       [] shape = "garbage" -> Garbage]

\* the type the raw schemas of a response carry
AskedType(detected) == IF detected = <<>> THEN "WebPage" ELSE detected[1]

LLMResponses(detected) ==
  {[i \in DOMAIN shapes |-> RawSchema(shapes[i], AskedType(detected))] :
     shapes \in SeqsUpTo(Shapes, MaxLLMSchemas)}

(***************************************************************************)
(* The provider stage of openRouterService.generateSchemasWithOpenRouter   *)
(* (OPENROUTER_API_KEY set): process and validate each raw schema, then    *)
(* make sure one schema is valid.                                          *)
(***************************************************************************)
\* a processing step whose catch block gives no reason
OR_ProcessWithoutReason(raw) ==
  LET parsed == JSONparse(CleanJsonLdString(raw.jsonLd))
      validation == validateSchema(parsed.val, raw.schemaType)
  IN IF parsed.ok /\ ~validateThrows(parsed.val)
     THEN SchemaEntry(raw.schemaType, "llm", JSONstringify(parsed.val),
                      IF validation.isValid THEN "valid" ELSE "invalid",
                      IF validation.isValid THEN NoError ELSE validation.errors)
     ELSE SchemaEntry(raw.schemaType, "llm", raw.jsonLd, "invalid", NoError)

OR_ProcessSchema(raw) ==
  LET parsed == JSONparse(CleanJsonLdString(raw.jsonLd))
      validation == validateSchema(parsed.val, raw.schemaType)
  IN IF parsed.ok /\ ~validateThrows(parsed.val)
     THEN SchemaEntry(raw.schemaType, "llm", JSONstringify(parsed.val),
                      IF validation.isValid THEN "valid" ELSE "invalid",
                      IF validation.isValid THEN NoError ELSE validation.errors)
     ELSE SchemaEntry(raw.schemaType, "llm", raw.jsonLd, "invalid",
                      <<Msg("Invalid JSON format")>>)

NoneValid(schemas) == \A i \in DOMAIN schemas : schemas[i].validationStatus # "valid"

\* a provider stage that never adds a fallback schema
NeverEnsure(processed, detected, text, info) == processed

\* lines 541-547 (openRouterService) and 718-724 (geminiService)
EnsureOneValid(processed, detected, text, info) ==
  IF NoneValid(processed) /\ Len(detected) > 0
  THEN Append(processed, createFallbackSchema(detected[1], text, info))
  ELSE processed

OR_Stage(response, text, url, info) ==
  EnsureOneValid([i \in DOMAIN response |-> OR_ProcessSchema(response[i])],
                 OR_analyzeContentForSchemaTypes(text, url), text, info)

(***************************************************************************)
(* The provider stage of geminiService.analyzeUrlForSchemas (the legacy    *)
(* service, used when OPENROUTER_API_KEY is not set).                      *)
(***************************************************************************)
TypeMatch(type, schemaType) ==
  IF type.arr THEN schemaType \in Range(type.names) ELSE type.names = <<schemaType>>

\* the object the legacy service puts in place of a string it cannot parse
ErrorJson(raw) ==
  [JObject(FALSE, NoType, {"error", "details", "originalString"}) EXCEPT !.orig = raw.fmt]

Gemini_ProcessSchema(raw) ==
  LET parsed == JSONparse(CleanJsonLdString(raw.jsonLd))
      formatted == JSONstringify(parsed.val)
  IN IF ~parsed.ok
     THEN SchemaEntry(raw.schemaType, "llm", JSONstringify(ErrorJson(raw.jsonLd)), "invalid",
                      <<Msg("Invalid JSON format")>>)
     ELSE IF ~parsed.val.ctx
     THEN SchemaEntry(raw.schemaType, "llm", formatted, "invalid",
                      <<Msg("Missing or invalid @context property")>>)
     ELSE IF parsed.val.type.names = <<>> \/ ~TypeMatch(parsed.val.type, raw.schemaType)
     THEN SchemaEntry(raw.schemaType, "llm", formatted, "invalid",
                      <<<<"Mismatched @type property", raw.schemaType>>>>)
     ELSE SchemaEntry(raw.schemaType, "llm", formatted, "valid", NoError)

Gemini_Stage(response, text, url, info) ==
  EnsureOneValid([i \in DOMAIN response |-> Gemini_ProcessSchema(response[i])],
                 Gemini_analyzeContentForSchemaTypes(text, url), text, info)

(***************************************************************************)
(* The templates provider: schemaTemplateService.                          *)
(***************************************************************************)
TemplateTypes ==
  {"Article", "BlogPosting", "Product", "FAQPage", "HowTo", "LocalBusiness",
   "Event", "Review", "Testimonial", "Recipe"}

\* the @type each local template writes
TemplateAtType(schemaType) == IF schemaType = "Testimonial" THEN "Review" ELSE schemaType

\* the templates that read no property of the profile object
ProfileFreeTemplates == {"FAQPage", "HowTo"}

\* the properties a local template sets to a truthy value; the modelled texts
\* hold no date, price, rating, image, question or step, so content has only
\* title, description, url and (with a byline) author
TemplateFields(schemaType, text, info) ==
  CASE schemaType \in {"Article", "BlogPosting"} ->
         {"headline", "description", "url", "datePublished", "dateModified"}
         \cup (IF text.byline \/ info.founderName # "" THEN {"author"} ELSE {})
         \cup (IF info.companyName # "" THEN {"publisher"} ELSE {})
    [] schemaType = "Product" ->
         {"name", "description"} \cup (IF info.companyName # "" THEN {"brand"} ELSE {})
    [] schemaType = "FAQPage" -> {"name", "description", "mainEntity"}
    [] schemaType = "HowTo" ->
         {"name", "description", "totalTime", "supply", "tool", "step"}
    [] schemaType = "LocalBusiness" -> {"name", "description", "url", "openingHours"}
    [] schemaType = "Event" ->
         {"name", "description", "startDate"}
         \cup (IF info.companyName # "" THEN {"organizer"} ELSE {})
    [] schemaType \in {"Review", "Testimonial"} ->
         {"itemReviewed", "reviewBody", "datePublished"}
         \cup (IF text.byline THEN {"author"} ELSE {})
    [] schemaType = "Recipe" ->
         {"name", "description", "datePublished", "dateModified", "prepTime",
          "cookTime", "totalTime", "recipeYield", "recipeCategory", "recipeCuisine",
          "recipeIngredient", "recipeInstructions", "recipeDifficulty",
          "recipeServings", "cookingMethod", "suitableForDiet"}
         \cup (IF text.byline \/ info.founderName # "" THEN {"author"} ELSE {})
         \cup (IF info.companyName # "" THEN {"publisher"} ELSE {})
    [] OTHER -> {"name", "description"}

\* generateWithLocalTemplate: made = FALSE when it throws
generateWithLocalTemplate(schemaType, text, info) ==
  IF schemaType \notin TemplateTypes \/ (info.null /\ schemaType \notin ProfileFreeTemplates)
  THEN [made |-> FALSE, schema |-> createFallbackSchema(schemaType, text, EmptyInfo)]
  ELSE [made |-> TRUE,
        schema |-> SchemaEntry(schemaType, "template",
                     JSONstringify(JObject(TRUE, ScalarType(TemplateAtType(schemaType)),
                                           TemplateFields(schemaType, text, info))),
                     "valid", NoError)]

\* the schema the remote template API answers with, when it answers
ApiSchema(schemaType) ==
  SchemaEntry(schemaType, "template-api",
              JSONstringify(JObject(TRUE, ScalarType(schemaType), {"name"})),
              "valid", NoError)

\* generateSchemaFromTemplate: the API first (it never answers a request
\* built from a null profile), the local template otherwise
generateSchemaFromTemplate(schemaType, text, info, apiAnswers) ==
  IF apiAnswers /\ ~info.null
  THEN [made |-> TRUE, schema |-> ApiSchema(schemaType)]
  ELSE generateWithLocalTemplate(schemaType, text, info)

\* generateMultipleSchemasFromTemplates; api[i] says whether the API answers
\* for the i-th type
generateMultipleSchemasFromTemplates(schemaTypes, text, info, api) ==
  LET types == Slice(schemaTypes, TEMPLATE_LIMIT)
      made(i) == generateSchemaFromTemplate(types[i], text, info, api[i])
      kept == SelectSeqIdx([i \in DOMAIN types |-> i], {i \in DOMAIN types : made(i).made})
  IN [j \in DOMAIN kept |-> made(kept[j]).schema]

Templates_Stage(text, url, info, api) ==
  generateMultipleSchemasFromTemplates(detectSchemaTypes(text, url), text, info, api)

(***************************************************************************)
(* Configuration of MultiProviderSchemaService.                            *)
(***************************************************************************)
\* the keys of config.providers, in the order Object.entries lists them
ProviderKeys == <<"openai", "gemini", "templates">>

ProviderConfig(name, enabled, priority, timeout) ==
  [name |-> name, enabled |-> enabled, priority |-> priority, timeout |-> timeout]

\* process.env: API_KEY is always set (geminiService throws on load without
\* it); OPENROUTER_API_KEY and GEMINI_API_KEY may or may not be
Envs ==
  {[openrouter |-> TRUE, gemini |-> FALSE],
   [openrouter |-> FALSE, gemini |-> TRUE],
   [openrouter |-> FALSE, gemini |-> FALSE]}

DEFAULT_CONFIG(e) ==
  [providers |->
     [openai |-> ProviderConfig("Gemini Flash Only (Fastest)", e.openrouter, 1, 10000),
      gemini |-> ProviderConfig("Legacy Gemini Service", e.gemini /\ ~e.openrouter, 2, 10000),
      templates |-> ProviderConfig("Template-based Generation", FALSE, 3, 5000)],
   maxSchemas |-> 2,
   enableValidation |-> FALSE,
   enableFallback |-> TRUE]

\* provider tables a caller may configure: both model providers with the
\* legacy one preferred, and the templates ahead of one model provider
LegacyFirst ==
  [openai |-> ProviderConfig("Gemini Flash Only (Fastest)", TRUE, 2, 10000),
   gemini |-> ProviderConfig("Legacy Gemini Service", TRUE, 1, 10000),
   templates |-> ProviderConfig("Template-based Generation", FALSE, 3, 5000)]

TemplatesFirst ==
  [openai |-> ProviderConfig("Gemini Flash Only (Fastest)", TRUE, 2, 10000),
   gemini |-> ProviderConfig("Legacy Gemini Service", FALSE, 1, 10000),
   templates |-> ProviderConfig("Template-based Generation", TRUE, 1, 5000)]

\* the environment of a running service and the partial configuration
\* handed to its constructor: nothing that differs from the defaults, or
\* another provider table
Deployments ==
  {<<e, [maxSchemas |-> 2]>> : e \in Envs}
  \cup {<<[openrouter |-> TRUE, gemini |-> FALSE], [providers |-> LegacyFirst]>>,
        <<[openrouter |-> FALSE, gemini |-> TRUE], [providers |-> TemplatesFirst]>>}

\* the partial configurations handed to updateConfig
ConfigPatches ==
  {[maxSchemas |-> 1, enableValidation |-> TRUE, enableFallback |-> FALSE]}

\* { ...this.config, ...newConfig }
Merge(cfg, patch) ==
  [k \in DOMAIN cfg |-> IF k \in DOMAIN patch THEN patch[k] ELSE cfg[k]]

\* the keys left in the order Object.entries lists them
UnsortedKeys(keys, providers) == keys

\* Array.prototype.sort((a, b) => a.priority - b.priority), which is stable:
\* the keys of a sequence ordered by priority, ties in their given order
RECURSIVE SortByPriority(_, _)
SortByPriority(keys, providers) ==
  IF keys = <<>> THEN <<>>
  ELSE LET least == CHOOSE i \in DOMAIN keys :
                      /\ \A j \in DOMAIN keys :
                           providers[keys[i]].priority <= providers[keys[j]].priority
                      /\ \A j \in 1..(i - 1) :
                           providers[keys[j]].priority > providers[keys[i]].priority
       IN <<keys[least]>>
          \o SortByPriority(SelectSeqIdx(keys, DOMAIN keys \ {least}), providers)

\* lines 148-150: the enabled providers sorted by priority, each with the
\* configuration object it had when the loop began
EnabledProviders(cfg) ==
  LET enabled == SelectSeqIdx(ProviderKeys,
                   {i \in DOMAIN ProviderKeys : cfg.providers[ProviderKeys[i]].enabled})
      sorted == SortByPriority(enabled, cfg.providers)
  IN [i \in DOMAIN sorted |->
        [key |-> sorted[i], name |-> cfg.providers[sorted[i]].name,
         timeout |-> cfg.providers[sorted[i]].timeout]]

(***************************************************************************)
(* The result cache.                                                       *)
(***************************************************************************)
\* a key made of the whole page text instead of its first 1000 characters
FullTextKey(url, text, info) ==
  [url |-> url.id, pageText |-> text.id, websiteInfo |-> info]

\* generateCacheKey: btoa(encodeURIComponent(JSON.stringify(...))) is one to
\* one, so the key is the triple it encodes
generateCacheKey(url, text, info) ==
  [url |-> url.id, pageText |-> Substring1000(text), websiteInfo |-> info]

\* an entry counted live up to and including the TTL
IsLiveInclusive(entry, time) == (time - entry.timestamp) <= CACHE_TTL

\* line 89: the entry is live
IsLive(entry, time) == (time - entry.timestamp) < CACHE_TTL

\* getCachedResult: hit says whether an entry is returned, cache is the map
\* it leaves
getCachedResult(c, cacheKey, time) ==
  IF cacheKey \in DOMAIN c /\ IsLive(c[cacheKey], time)
  THEN [hit |-> TRUE, cache |-> c]
  ELSE [hit |-> FALSE,
        cache |-> IF cacheKey \in DOMAIN c
                  THEN [k \in DOMAIN c \ {cacheKey} |-> c[k]] ELSE c]

\* a cache in which the first result stored under a key stays
setCachedResultIfAbsent(c, cacheKey, result, time) ==
  IF cacheKey \in DOMAIN c THEN c
  ELSE [k \in DOMAIN c \cup {cacheKey} |->
          IF k = cacheKey
          THEN [schemas |-> result.schemas, provider |-> result.provider,
                processingTime |-> result.processingTime,
                validationResults |-> result.validationResults, timestamp |-> time]
          ELSE c[k]]

\* setCachedResult
setCachedResult(c, cacheKey, result, time) ==
  [k \in DOMAIN c \cup {cacheKey} |->
     IF k = cacheKey
     THEN [schemas |-> result.schemas, provider |-> result.provider,
           processingTime |-> result.processingTime,
           validationResults |-> result.validationResults, timestamp |-> time]
     ELSE c[k]]

(***************************************************************************)
(* What a provider call can end in, apart from being outrun by its         *)
(* timeout: an error thrown, or a schema list returned.                    *)
(***************************************************************************)
Threw(message) == [kind |-> "threw", error |-> message, schemas |-> <<>>]

Returned(schemas) == [kind |-> "returned", error |-> None, schemas |-> schemas]

\* the errors generateSchemasWithOpenRouter throws with OPENROUTER_API_KEY set
OR_Errors == {"All AI providers failed. Last error: API error"}

\* the error analyzeUrlForSchemas throws when the API call fails
Gemini_Errors == {"An error occurred while communicating with the AI service."}

\* reading a property of a null profile while the prompt is built
NullProfileError(e) ==
  IF e.openrouter
  THEN "All AI providers failed. Last error: Cannot read properties of null"
  ELSE "Cannot read properties of null"

\* executeProvider: every way the call for providerKey can end
ProviderOutcomes(providerKey, e, text, url, info) ==
  IF providerKey = "templates"
  THEN LET n == Min(Len(detectSchemaTypes(text, url)), TEMPLATE_LIMIT)
       IN {Returned(Templates_Stage(text, url, info, api)) : api \in [1..n -> BOOLEAN]}
  ELSE IF info.null THEN {Threw(NullProfileError(e))}
  ELSE IF e.openrouter
  THEN {Threw(m) : m \in OR_Errors}
       \cup {Returned(OR_Stage(resp, text, url, info)) :
               resp \in LLMResponses(OR_analyzeContentForSchemaTypes(text, url))}
  ELSE {Threw(m) : m \in Gemini_Errors}
       \cup {Returned(<<>>)}
       \cup {Returned(Gemini_Stage(resp, text, url, info)) :
               resp \in LLMResponses(Gemini_analyzeContentForSchemaTypes(text, url))}

(***************************************************************************)
(* The messages of the errors scrapePageContent throws, by class.          *)
(***************************************************************************)
\* A message is the sequence of its words; String.prototype.includes is the
\* search for the needle's words as a run of the message's words.
MsgIncludes(message, needle) ==
  \E i \in 1..(Len(message) - Len(needle) + 1) :
     \A j \in 1..Len(needle) : message[i + j - 1] = needle[j]

ErrorClasses == {"timeout", "notFound", "forbidden", "cors", "generic"}

ScrapeMessage(class) ==
  CASE class = "timeout" ->
         <<"Request", "timed", "out.", "The", "website", "might", "be",
           "slow", "to", "respond", "or", "blocking", "automated",
           "requests.", "Please", "try", "the", "manual", "content", "input",
           "option", "or", "try", "again", "later.">>
    [] class = "notFound" ->
         <<"The", "URL", "could", "not", "be", "found.", "Please", "check",
           "that", "the", "URL", "is", "correct", "and", "the", "page",
           "exists.">>
    [] class = "forbidden" ->
         <<"This", "website", "is", "protected", "by", "Cloudflare", "or",
           "similar", "security", "measures.", "Please", "use", "the",
           "'Manual", "Content", "Input'", "option", "below.">>
    [] class = "cors" ->
         <<"CORS", "policy", "prevents", "access", "to", "this", "URL.",
           "All", "proxy", "services", "and", "browser", "automation",
           "failed.", "Please", "use", "the", "manual", "content", "input",
           "option.">>
    [] OTHER ->
         <<"Failed", "to", "fetch", "content", "from", "the", "URL.", "The",
           "page", "might", "be", "down,", "blocking", "requests,", "or",
           "all", "services", "could", "be", "temporarily", "unavailable.",
           "Please", "use", "the", "manual", "content", "input", "option.">>

\* how the scrapePageContent call awaited by generateSchemas can end: with a
\* page text, or with a classified error
ScrapeResults ==
  {[ok |-> TRUE, text |-> TextLongA, error |-> None],
   [ok |-> FALSE, text |-> TextEmpty, error |-> ScrapeMessage("generic")]}

(***************************************************************************)
(* generateSchemas of MultiProviderSchemaService, as the steps between     *)
(* its suspension points.  A caller that supplies no pageText, or an empty *)
(* one, has the page scraped first (lines 124-133); the scrape is one      *)
(* suspension.  generateFallbackSchemas awaits nothing                     *)
(* that can be delayed, so the fallback, the validation, the truncation    *)
(* and the cache write belong to the step that leaves the provider loop.   *)
(* Timers fire when they are due: while a provider call is awaited the     *)
(* clock does not pass the deadline of its timeout.                        *)
(***************************************************************************)
VARIABLES
  env,        \* process.env, fixed when the module is loaded
  config,     \* this.config
  cache,      \* this.cache: a function from the keys present to entries
  now,        \* Date.now()
  reqs,       \* the generateSchemas calls, by slot
  nCalls,     \* calls started so far
  nUpdates,   \* updateConfig calls so far
  nTicks,     \* passages of time so far
  app,        \* the state of the App component and of its running handler
  nAnalyses,  \* handleAnalyze calls so far
  scr,        \* the scrapePageContent call
  lim,        \* the rate limiter's state of the domain of the URL
  nScrapes,   \* scrapePageContent calls so far
  cls,        \* the page last handed to a classifier, and what it returned
  val,        \* the validateSchema call: its arguments and how it ended
  syn,        \* the call of a synthesizer: its arguments and what it built
  held        \* the object getConfig returned to a caller

vars ==
  <<env, config, cache, now, reqs, nCalls, nUpdates, nTicks, app, nAnalyses,
    scr, lim, nScrapes, cls, val, syn, held>>

\* the variables of the service, of the App and of the content fetcher
serviceVars == <<env, config, cache, reqs, nCalls, nUpdates, nTicks, held>>
appVars == <<app, nAnalyses>>
fetchVars == <<scr, lim, nScrapes>>
\* the calls of the pure functions of the services
pureVars == <<cls, val, syn>>

\* the slots of the calls a caller makes one after the other, and a last
\* one for a call made while another call is still running
Slots == 1..3

OverSlot == CHOOSE s \in Slots : \A t \in Slots : t <= s

NoResult ==
  [schemas |-> <<>>, provider |-> "", processingTime |-> 0, validationResults |-> <<>>]

\* a slot no call has used yet.  call is the number of the call, given the
\* pageText argument, fetched whether the URL was scraped, outcomes the
\* log of the provider calls that have ended (when each began and how long
\* it was awaited), schemas the list before it is cut to maxSchemas,
\* abandoned the provider calls of the plan whose timer fired first and
\* which have not settled yet
IdleReq ==
  [pc |-> "idle", call |-> 0, url |-> UrlPlain, given |-> TextShort, fetched |-> FALSE,
   text |-> TextShort, info |-> EmptyInfo,
   key |-> generateCacheKey(UrlPlain, TextShort, EmptyInfo),
   startTime |-> 0, hit |-> FALSE, plan |-> <<>>, idx |-> 0, callStart |-> 0,
   outcomes |-> <<>>, lastError |-> None, schemas |-> <<>>, usedProvider |-> "",
   result |-> NoResult, endTime |-> 0, error |-> None, abandoned |-> {}]

\* generateFallbackSchemas; it throws when handed no profile object
generateFallbackSchemas(text, info) ==
  <<SchemaEntry("BlogPosting", "Fallback schema generated when all providers failed",
      JSONstringify(JObject(TRUE, ScalarType("BlogPosting"),
        {"headline", "description", "datePublished"}
        \cup (IF info.founderName # "" THEN {"author"} ELSE {})
        \cup (IF info.companyName # "" THEN {"publisher"} ELSE {}))),
      "valid", NoError)>>

\* lines 198-214: the validator's result for each schema of the full list
ValidationResults(cfg, schemas) ==
  IF cfg.enableValidation /\ Len(schemas) > 0
  THEN [i \in DOMAIN schemas |->
          LET parsed == JSONparse(schemas[i].jsonLd)
          IN IF parsed.ok /\ ~validateThrows(parsed.val)
             THEN validateSchema(parsed.val, schemas[i].schemaType)
             ELSE [isValid |-> FALSE, errors |-> <<Msg("Invalid JSON format")>>,
                   warnings |-> <<>>, suggestions |-> <<>>]]
  ELSE <<>>

\* lines 219-224: the result object
MakeResult(cfg, schemas, usedProvider, processingTime) ==
  [schemas |-> Slice(schemas, cfg.maxSchemas), provider |-> usedProvider,
   processingTime |-> processingTime,
   validationResults |-> ValidationResults(cfg, schemas)]

\* lines 198-229: validate, build the result, cache it, return it
Finish(r, schemas, usedProvider, c, cfg, time) ==
  LET result == MakeResult(cfg, schemas, usedProvider, time - r.startTime)
  IN [req |-> [r EXCEPT !.pc = "done", !.schemas = schemas,
                        !.usedProvider = usedProvider, !.result = result,
                        !.endTime = time],
      cache |-> setCachedResult(c, r.key, result, time)]

\* line 187: whether the fallback synthesis is attempted
FallbackWanted(cfg, schemas) == Len(schemas) = 0 /\ cfg.enableFallback

\* an end of the loop that returns the fallback result without storing it
AfterLoopUncached(r, c, cfg, time) ==
  IF FallbackWanted(cfg, <<>>)
  THEN IF r.info.null
       THEN [req |-> [r EXCEPT !.pc = "error", !.endTime = time,
                        !.error = <<"All schema generation methods failed. Last error",
                                    IF r.lastError = None THEN "Unknown error"
                                    ELSE r.lastError>>],
             cache |-> c]
       ELSE [req |-> Finish(r, generateFallbackSchemas(r.text, r.info), "Fallback",
                            c, cfg, time).req,
             cache |-> c]
  ELSE Finish(r, <<>>, "", c, cfg, time)

\* lines 186-229, reached with no schemas from any provider
AfterLoop(r, c, cfg, time) ==
  IF FallbackWanted(cfg, <<>>)
  THEN IF r.info.null
       THEN [req |-> [r EXCEPT !.pc = "error", !.endTime = time,
                        !.error = <<"All schema generation methods failed. Last error",
                                    IF r.lastError = None THEN "Unknown error"
                                    ELSE r.lastError>>],
             cache |-> c]
       ELSE Finish(r, generateFallbackSchemas(r.text, r.info), "Fallback", c, cfg, time)
  ELSE Finish(r, <<>>, "", c, cfg, time)

\* lines 157-184: the call of the next provider of the plan, or the end of
\* the loop
NextProvider(r, c, cfg, time) ==
  IF r.idx < Len(r.plan)
  THEN [req |-> [r EXCEPT !.pc = "provider", !.idx = r.idx + 1, !.callStart = time],
        cache |-> c]
  ELSE AfterLoop(r, c, cfg, time)

\* a catch block that keeps the first error it saw
KeepFirstError(r, message) ==
  IF r.lastError = None THEN [r EXCEPT !.lastError = message] ELSE r

\* lines 177-183: the catch block of the provider loop
OnProviderError(r, message) == [r EXCEPT !.lastError = message]

\* line 170: a provider's list counts as a success
IsSuccess(schemas) == Len(schemas) > 0

\* lines 161-183: the loop body once the awaited provider call has ended
AfterProvider(r, outcome, c, cfg, time) ==
  LET logged == [r EXCEPT !.outcomes =
                   Append(r.outcomes,
                     [key |-> r.plan[r.idx].key,
                      kind |-> IF outcome.kind = "returned"
                               THEN (IF IsSuccess(outcome.schemas) THEN "nonempty" ELSE "empty")
                               ELSE outcome.kind,
                      error |-> outcome.error, start |-> r.callStart,
                      elapsed |-> time - r.callStart])]
  IN IF outcome.kind = "returned"
     THEN IF IsSuccess(outcome.schemas)
          THEN Finish(logged, outcome.schemas, r.plan[r.idx].name, c, cfg, time)
          ELSE NextProvider(logged, c, cfg, time)
     ELSE NextProvider(OnProviderError(logged, outcome.error), c, cfg, time)

\* a timer set to twice the configured timeout
LateDeadline(r) == r.callStart + 2 * r.plan[r.idx].timeout

\* line 242: when the timer of the current provider call fires
TimeoutDeadline(r) == r.callStart + r.plan[r.idx].timeout

InFlight(r) == r.pc = "provider"

\* line 246: the race is lost by the provider call, which goes on running
Abandon(r) == [r EXCEPT !.abandoned = @ \cup {r.idx}]

\* a provider call whose settlement adopts its schemas as the result
LateOutcomeAdopted(r, i, outcome) ==
  IF outcome.kind = "returned" /\ IsSuccess(outcome.schemas) /\ r.pc = "done"
  THEN [r EXCEPT !.abandoned = @ \ {i}, !.schemas = outcome.schemas,
                 !.usedProvider = r.plan[i].name,
                 !.result.schemas = outcome.schemas,
                 !.result.provider = r.plan[i].name]
  ELSE [r EXCEPT !.abandoned = @ \ {i}]

\* line 246: the promise of an abandoned provider call settles after the
\* race was decided; the race has no use for its value or its error
LateOutcome(r, i, outcome) == [r EXCEPT !.abandoned = @ \ {i}]

(***************************************************************************)
(* The rate limiter (./rateLimiting): the bookkeeping of one domain.       *)
(* windows is the history of the backoff windows, in seconds, set since    *)
(* the last recorded success.                                              *)
(***************************************************************************)
BACKOFF_BASE_S == 30
BACKOFF_MAX_S == 300
COUNT_WINDOW_MS == 60000

FreshLimit ==
  [lastRequestTime |-> 0, requestCount |-> 0, windowStart |-> 0,
   isRateLimited |-> FALSE, backoffUntil |-> 0, windows |-> <<>>]

\* isRateLimited(url): whether the backoff is still running, and the state
\* the check leaves (an expired backoff is cleared)
isRateLimited(l, time) ==
  IF l.isRateLimited /\ l.backoffUntil > time
  THEN [limited |-> TRUE, lim |-> l]
  ELSE [limited |-> FALSE, lim |-> [l EXCEPT !.isRateLimited = FALSE, !.backoffUntil = 0]]

\* recordSuccessfulRequest(url)
recordSuccessfulRequest(l, time) ==
  LET fresh == time - l.windowStart >= COUNT_WINDOW_MS
  IN [l EXCEPT !.lastRequestTime = time,
               !.requestCount = IF fresh THEN 1 ELSE l.requestCount + 1,
               !.windowStart = IF fresh THEN time ELSE l.windowStart,
               !.windows = <<>>]

\* the backoff window, in seconds, of a call without retry-after
ExponentialWindow(l) == Min(BACKOFF_BASE_S * 2 ^ l.requestCount, BACKOFF_MAX_S)

\* recordRateLimit(url, retryAfterSeconds): retryAfter 0 stands for undefined
recordRateLimit(l, time, retryAfter) ==
  LET window == IF retryAfter > 0 THEN retryAfter ELSE ExponentialWindow(l)
  IN [l EXCEPT !.isRateLimited = TRUE, !.backoffUntil = time + window * 1000,
               !.windows = Append(l.windows, [seconds |-> window,
                                              exponential |-> retryAfter = 0])]

\* getRequestDelay(url), in milliseconds: the remaining backoff, else the
\* adaptive delay (the random jitter added to it is left out)
getRequestDelay(l, time) ==
  IF isRateLimited(l, time).limited THEN l.backoffUntil - time
  ELSE IF l.requestCount > 10 THEN 2000
  ELSE IF l.requestCount > 5 THEN 1000
  ELSE 500

(***************************************************************************)
(* scrapePageContent of geminiService.ts: the state of one call.           *)
(* log lists the requests sent, in order: the transport (1 to 3 for the    *)
(* proxies, 4 for the browser endpoint) and what became of the request;    *)
(* lastKind is the kind of failure lastError was set from.                 *)
(***************************************************************************)
PROXY_COUNT == 3
BROWSER == PROXY_COUNT + 1
MAX_REQUEST_ATTEMPTS == 2
MAX_BROWSER_ATTEMPTS == 2

IdleScr ==
  [pc |-> "idle", i |-> 0, requestAttempts |-> 0, browserAttempts |-> 0,
   lastError |-> <<>>, lastKind |-> None, log |-> <<>>, error |-> <<>>,
   pageText |-> TextEmpty]

\* the App component before any analysis: error is the message shown (<<>>
\* for null), schemas the list shown, failure the class of the scrape error
\* the last handleAnalyze ended with, slot the generateSchemas call awaited
IdleApp ==
  [pc |-> "idle", isLoading |-> FALSE, error |-> <<>>, showManualInput |-> FALSE,
   hasSchemas |-> FALSE, schemas |-> <<>>, url |-> UrlPlain, info |-> EmptyInfo,
   slot |-> 1, deadline |-> 0, expired |-> FALSE, failure |-> None]

\* line 125: the awaited scrapePageContent call has not settled yet
Scraping(r) == r.pc = "scrape"

\* line 124: !pageText
NotProvided(text) == text.len = 0

\* lines 135-168: from the cache lookup to the call of the first enabled
\* provider, for the page text the call works with
Lookup(r, text, c, cfg, time) ==
  LET key == generateCacheKey(r.url, text, r.info)
      lookup == getCachedResult(c, key, time)
      q == [r EXCEPT !.text = text, !.key = key]
  IN IF lookup.hit
     THEN [req |-> [q EXCEPT !.pc = "done", !.hit = TRUE, !.endTime = time,
                      !.result = [schemas |-> c[key].schemas,
                                  provider |-> c[key].provider,
                                  processingTime |-> time - q.startTime,
                                  validationResults |-> c[key].validationResults]],
           cache |-> lookup.cache]
     ELSE NextProvider([q EXCEPT !.plan = EnabledProviders(cfg)],
                       lookup.cache, cfg, time)

\* no page has been handed to a classifier yet
IdleCls ==
  [pc |-> "idle", classifier |-> "service", text |-> TextEmpty, url |-> UrlPlain,
   types |-> <<>>]

\* validateSchema has not been called yet
IdleVal ==
  [pc |-> "idle", schema |-> NoValue, schemaType |-> "WebPage", threw |-> FALSE,
   result |-> validateSchema(NoValue, "WebPage")]

\* no synthesizer has been called yet
IdleSyn ==
  [pc |-> "idle", synthesizer |-> "createFallbackSchema", schemaType |-> "WebPage",
   text |-> TextEmpty, info |-> EmptyInfo, made |-> <<>>, origins |-> <<>>]

PureIdle == cls = IdleCls /\ val = IdleVal /\ syn = IdleSyn

\* getConfig has not been called: no caller holds a configuration object
NotHeld ==
  [taken |-> FALSE, aliased |-> FALSE, mutations |-> 0,
   top |-> [maxSchemas |-> 0, enableValidation |-> FALSE, enableFallback |-> FALSE]]

\* the service before its first call
ServiceIdle ==
  /\ held = NotHeld
  /\ cache = <<>>
  /\ now = 0
  /\ reqs = [s \in Slots |-> IdleReq]
  /\ nCalls = 0
  /\ nUpdates = 0
  /\ nTicks = 0

AppIdle == app = IdleApp /\ nAnalyses = 0

Init ==
  /\ \E d \in Deployments :
       /\ env = d[1]
       /\ config = Merge(DEFAULT_CONFIG(d[1]), d[2])
  /\ ServiceIdle
  /\ AppIdle
  /\ scr = IdleScr
  /\ lim = FreshLimit
  /\ nScrapes = 0
  /\ PureIdle

\* updateConfig(newConfig), at any moment at which a later step can still
\* read the configuration
UpdateConfig ==
  /\ nUpdates < MaxUpdates
  /\ nCalls < MaxCalls \/ \E s \in Slots : InFlight(reqs[s]) \/ Scraping(reqs[s])
  /\ \E patch \in ConfigPatches : config' = Merge(config, patch)
  /\ nUpdates' = nUpdates + 1
  /\ UNCHANGED <<env, cache, now, reqs, nCalls, nTicks>>
  /\ UNCHANGED <<appVars, fetchVars, pureVars, held>>

\* generateSchemas(url, websiteInfo, pageText) up to its first suspension:
\* the scrape when no page text came with the call, else the cache lookup
\* and the call of the first enabled provider.  The calls use the slots in
\* turn, so that the record of the previous call stays readable.
NextSlot == (nCalls % 2) + 1

Begin(url, text, info) ==
  LET r == [IdleReq EXCEPT !.url = url, !.given = text, !.text = text,
                           !.info = info, !.startTime = now, !.call = nCalls + 1]
      begun == IF NotProvided(text)
               THEN [req |-> [r EXCEPT !.pc = "scrape", !.fetched = TRUE],
                     cache |-> cache]
               ELSE Lookup(r, text, cache, config, now)
  IN /\ reqs' = [reqs EXCEPT ![NextSlot] = begun.req]
     /\ cache' = begun.cache
     /\ nCalls' = nCalls + 1

\* a caller of the service calls generateSchemas, one call after the other
Start ==
  /\ nCalls < MaxCalls
  /\ \A s \in Slots : ~InFlight(reqs[s]) /\ ~Scraping(reqs[s])
  /\ \E url \in Urls, input \in Inputs : Begin(url, input[1], input[2])
  /\ UNCHANGED <<env, config, now, nUpdates, nTicks>>
  /\ UNCHANGED <<appVars, fetchVars, pureVars, held>>

\* lines 125-133: the awaited scrapePageContent call settles; its error
\* leaves generateSchemas uncaught, its page text is the one the call goes
\* on with
ScrapeSettles(s) ==
  /\ Scraping(reqs[s])
  /\ \E res \in ScrapeResults :
       LET after == IF res.ok
                    THEN Lookup(reqs[s], res.text, cache, config, now)
                    ELSE [req |-> [reqs[s] EXCEPT !.pc = "error", !.endTime = now,
                                     !.error = <<res.error, "">>],
                          cache |-> cache]
       IN /\ reqs' = [reqs EXCEPT ![s] = after.req]
          /\ cache' = after.cache
  /\ UNCHANGED <<env, config, now, nCalls, nUpdates, nTicks>>
  /\ UNCHANGED <<appVars, fetchVars, pureVars, held>>

\* the awaited provider call settles before its timer fires
ProviderSettles(s) ==
  /\ InFlight(reqs[s])
  /\ now < TimeoutDeadline(reqs[s])
  /\ \E outcome \in ProviderOutcomes(reqs[s].plan[reqs[s].idx].key, env,
                                     reqs[s].text, reqs[s].url, reqs[s].info) :
       LET after == AfterProvider(reqs[s], outcome, cache, config, now)
       IN /\ reqs' = [reqs EXCEPT ![s] = after.req]
          /\ cache' = after.cache
  /\ UNCHANGED <<env, config, now, nCalls, nUpdates, nTicks>>
  /\ UNCHANGED <<appVars, fetchVars, pureVars, held>>

\* the timer of generateWithProvider fires first: the race rejects with
\* 'Provider timeout'
ProviderTimeout(s) ==
  /\ InFlight(reqs[s])
  /\ now >= TimeoutDeadline(reqs[s])
  /\ LET after == AfterProvider(Abandon(reqs[s]),
                                [kind |-> "timeout", error |-> "Provider timeout",
                                          schemas |-> <<>>], cache, config, now)
     IN /\ reqs' = [reqs EXCEPT ![s] = after.req]
        /\ cache' = after.cache
  /\ UNCHANGED <<env, config, now, nCalls, nUpdates, nTicks>>
  /\ UNCHANGED <<appVars, fetchVars, pureVars, held>>

\* when the timers that are set are due: the timeouts of the provider calls
\* in flight and the deadline of the App's race
TimersDue ==
  {TimeoutDeadline(reqs[s]) : s \in {t \in Slots : InFlight(reqs[t])}}
  \cup (IF app.pc = "racing" THEN {app.deadline} ELSE {})

\* time passes while a provider call is awaited, up to the moment its timer
\* is due
Wait ==
  /\ \E s \in Slots : InFlight(reqs[s])
  /\ \A t \in TimersDue : now < t
  /\ now' = CHOOSE t \in TimersDue : \A u \in TimersDue : t <= u
  /\ UNCHANGED <<env, config, cache, reqs, nCalls, nUpdates, nTicks>>
  /\ UNCHANGED <<appVars, fetchVars, pureVars, held>>

\* time passes between two calls (before the first call and after the last
\* one the clock is read by nothing)
Tick ==
  /\ nTicks < MaxTicks
  /\ nCalls > 0
  /\ nCalls < MaxCalls
  /\ \A s \in Slots : ~InFlight(reqs[s]) /\ ~Scraping(reqs[s])
  /\ now' = now + TickMs
  /\ nTicks' = nTicks + 1
  /\ UNCHANGED <<env, config, cache, reqs, nCalls, nUpdates>>
  /\ UNCHANGED <<appVars, fetchVars, pureVars, held>>

Next ==
  \/ UpdateConfig
  \/ Start
  \/ \E s \in Slots : ScrapeSettles(s)
  \/ \E s \in Slots : ProviderSettles(s)
  \/ \E s \in Slots : ProviderTimeout(s)
  \/ Wait
  \/ Tick

Spec == Init /\ [][Next]_vars

(***************************************************************************)
(* The App component: handleAnalyze, the error panel with its "Manual      *)
(* Content Input" button, and handleManualContentSubmit.  The scrape that  *)
(* handleAnalyze awaits is one suspension here; the generateSchemas call   *)
(* it then makes takes the steps of the service above.                     *)
(***************************************************************************)
\* line 258: the deadline of the race, in milliseconds
ANALYZE_DEADLINE == 20000

\* lines 270-273: the words that make the catch block rewrite the message
BlockingNeedles ==
  {<<"403">>, <<"Forbidden">>, <<"blocking">>, <<"firewall">>, <<"security">>,
   <<"Cloudflare">>}

\* line 274
CloudflareNotice ==
  <<"This", "website", "is", "protected", "by", "Cloudflare", "or", "similar",
    "security", "measures.", "Please", "use", "the", "\"Manual", "Content",
    "Input\"", "option", "below.">>

\* line 258
DeadlineError == <<"Schema", "generation", "timeout">>

\* lines 267-279: the message the catch block of handleAnalyze shows
ShownError(message) ==
  IF \E needle \in BlockingNeedles : MsgIncludes(message, needle)
  THEN CloudflareNotice
  ELSE message

\* lines 491-503: the error panel renders the button that opens the manual
\* input
ManualButtonShown(a) == a.error # <<>> /\ MsgIncludes(a.error, <<"Cloudflare">>)

\* the profile handed to the service: selectedProfile ?? the empty profile
Profiles == {EmptyInfo, FullInfo}

\* the page texts the scrapePageContent call awaited by handleAnalyze can
\* return
AnalyzeScrapeTexts == {TextTestimonial, TextLongA, TextEmpty}

\* what the user can submit as manual content (trimmed and not empty)
ManualContents == {TextLongB, TextShort}

Settled(r) == r.pc \in {"done", "error"}

\* lines 262-265 and 267-283: what awaiting the generateSchemas call r ends in
Received(a, r) ==
  IF r.pc = "done"
  THEN [a EXCEPT !.pc = "idle", !.isLoading = FALSE, !.hasSchemas = TRUE,
                 !.schemas = r.result.schemas]
  ELSE [a EXCEPT !.pc = "idle", !.isLoading = FALSE, !.error = ShownError(r.error)]

\* handleAnalyze(url) up to the await of the scrape (lines 206-236)
HandleAnalyze ==
  /\ nAnalyses < MaxAnalyses
  /\ app.pc = "idle"
  /\ \E url \in Urls, info \in Profiles :
       app' = [app EXCEPT !.pc = "scraping", !.isLoading = TRUE, !.error = <<>>,
                          !.hasSchemas = FALSE, !.schemas = <<>>, !.url = url,
                          !.info = info, !.expired = FALSE, !.failure = None]
  /\ nAnalyses' = nAnalyses + 1
  /\ UNCHANGED <<env, config, cache, now, reqs, nCalls, nUpdates, nTicks>>
  /\ UNCHANGED <<fetchVars, pureVars, held>>

\* the scrape throws a classified error: the catch block (lines 267-283)
AnalyzeScrapeFails ==
  /\ app.pc = "scraping"
  /\ \E class \in ErrorClasses :
       app' = [app EXCEPT !.pc = "idle", !.isLoading = FALSE,
                          !.error = ShownError(ScrapeMessage(class)),
                          !.failure = class]
  /\ UNCHANGED <<env, config, cache, now, reqs, nCalls, nUpdates, nTicks, nAnalyses>>
  /\ UNCHANGED <<fetchVars, pureVars, held>>

\* the scrape returns (lines 236-265): without page text the empty list is
\* shown, else generateSchemas is called and raced against the deadline
AnalyzeScrapeReturns ==
  /\ app.pc = "scraping"
  /\ \E text \in AnalyzeScrapeTexts :
       IF NotProvided(text)
       THEN /\ app' = [app EXCEPT !.pc = "idle", !.isLoading = FALSE,
                                  !.hasSchemas = TRUE, !.schemas = <<>>]
            /\ UNCHANGED <<reqs, cache, nCalls>>
       ELSE /\ Begin(app.url, text, app.info)
            /\ app' = [app EXCEPT !.pc = "racing", !.slot = NextSlot,
                                  !.deadline = now + ANALYZE_DEADLINE]
  /\ UNCHANGED <<env, config, now, nUpdates, nTicks, nAnalyses>>
  /\ UNCHANGED <<fetchVars, pureVars, held>>

\* the generateSchemas call settles first and wins the race
AnalyzeReceives ==
  /\ app.pc = "racing"
  /\ Settled(reqs[app.slot])
  /\ app' = Received(app, reqs[app.slot])
  /\ UNCHANGED <<env, config, cache, now, reqs, nCalls, nUpdates, nTicks, nAnalyses>>
  /\ UNCHANGED <<fetchVars, pureVars, held>>

\* the timer of line 258 fires first: the race rejects, the catch block
\* shows the error, and nothing is said to the generateSchemas call
AnalyzeDeadline ==
  /\ app.pc = "racing"
  /\ ~Settled(reqs[app.slot])
  /\ now >= app.deadline
  /\ app' = [app EXCEPT !.pc = "idle", !.isLoading = FALSE, !.expired = TRUE,
                        !.error = ShownError(DeadlineError)]
  /\ UNCHANGED <<env, config, cache, now, reqs, nCalls, nUpdates, nTicks, nAnalyses>>
  /\ UNCHANGED <<fetchVars, pureVars, held>>

\* line 498: the user clicks the button of the error panel
OpenManualInput ==
  /\ app.pc = "idle"
  /\ ManualButtonShown(app)
  /\ ~app.showManualInput
  /\ app' = [app EXCEPT !.showManualInput = TRUE]
  /\ UNCHANGED <<env, config, cache, now, reqs, nCalls, nUpdates, nTicks, nAnalyses>>
  /\ UNCHANGED <<fetchVars, pureVars, held>>

\* handleManualContentSubmit(content) up to its await (lines 287-302)
HandleManualContentSubmit ==
  /\ app.pc = "idle"
  /\ app.showManualInput
  /\ \A s \in Slots : ~InFlight(reqs[s])
  /\ \E content \in ManualContents :
       /\ Begin(app.url, content, app.info)
       /\ app' = [app EXCEPT !.pc = "manual", !.isLoading = TRUE, !.error = <<>>,
                             !.hasSchemas = FALSE, !.schemas = <<>>,
                             !.showManualInput = FALSE, !.slot = NextSlot]
  /\ UNCHANGED <<env, config, now, nUpdates, nTicks, nAnalyses>>
  /\ UNCHANGED <<fetchVars, pureVars, held>>

\* lines 302-317: the awaited generateSchemas call settles
ManualReceives ==
  /\ app.pc = "manual"
  /\ Settled(reqs[app.slot])
  /\ app' = IF reqs[app.slot].pc = "done"
            THEN Received(app, reqs[app.slot])
            ELSE [app EXCEPT !.pc = "idle", !.isLoading = FALSE,
                             !.error = reqs[app.slot].error]
  /\ UNCHANGED <<env, config, cache, now, reqs, nCalls, nUpdates, nTicks, nAnalyses>>
  /\ UNCHANGED <<fetchVars, pureVars, held>>

AppNext ==
  \/ HandleAnalyze
  \/ AnalyzeScrapeFails
  \/ AnalyzeScrapeReturns
  \/ AnalyzeReceives
  \/ AnalyzeDeadline
  \/ OpenManualInput
  \/ HandleManualContentSubmit
  \/ ManualReceives
  \/ \E s \in Slots : ProviderSettles(s)
  \/ \E s \in Slots : ProviderTimeout(s)
  \/ Wait

AppSpec == Init /\ [][AppNext]_vars

(***************************************************************************)
(* scrapePageContent, as the steps between its awaited requests.  A sleep  *)
(* belongs to the step that ends in the next request.                      *)
(***************************************************************************)
\* how a fetch of a proxy can reject, and what a proxy can answer
ThrowKinds == {"network", "timeout", "cors"}

\* "ok" and "okLimited" are answers with a success status and a page;
\* "okLimited" and "rateLimited" (status 429) signal rate limiting
ProxyAnswers == {"ok", "okLimited", "empty", "status404", "status403", "rateLimited"}

\* response.ok with a body that is not empty
HasPage(answer) == answer \in {"ok", "okLimited"}

\* isRateLimitResponse of ./rateLimiting: the status is 429 or 503, or the
\* response carries a retry-after header or a remaining-quota header of zero
isRateLimitResponse(answer) == answer \in {"okLimited", "rateLimited"}

\* the retry-after a rate-limited answer carries, in seconds (0: none)
RetryAfters == {0, 5}

\* the message of the error that lastError is set from
FailureMessage(kind) ==
  CASE kind = "network" -> <<"Failed", "to", "fetch">>
    [] kind = "timeout" ->
         <<"The", "operation", "was", "aborted", "due", "to", "timeout">>
    [] kind = "cors" -> <<"CORS", "request", "did", "not", "succeed">>
    [] kind = "empty" -> <<"Proxy", "service", "returned", "empty", "content">>
    [] kind = "status404" ->
         <<"Proxy", "service", "returned", "status:", "404", "Not", "Found">>
    [] kind = "status403" ->
         <<"Proxy", "service", "returned", "status:", "403", "Forbidden">>
    [] OTHER ->
         <<"Rate", "limited", "by", "proxy", "service.", "Status:", "429",
           "Too", "Many", "Requests">>

\* a classification without the CORS branch
ClassifyFourWay(lastError) ==
  IF MsgIncludes(lastError, <<"timeout">>) \/ MsgIncludes(lastError, <<"AbortError">>)
  THEN "timeout"
  ELSE IF MsgIncludes(lastError, <<"404">>) \/ MsgIncludes(lastError, <<"Not", "Found">>)
  THEN "notFound"
  ELSE IF MsgIncludes(lastError, <<"403">>) \/ MsgIncludes(lastError, <<"Forbidden">>)
  THEN "forbidden"
  ELSE "generic"

\* lines 350-366: the class of the error thrown, from the message of
\* lastError
Classify(lastError) ==
  IF MsgIncludes(lastError, <<"timeout">>) \/ MsgIncludes(lastError, <<"AbortError">>)
  THEN "timeout"
  ELSE IF MsgIncludes(lastError, <<"404">>) \/ MsgIncludes(lastError, <<"Not", "Found">>)
  THEN "notFound"
  ELSE IF MsgIncludes(lastError, <<"403">>) \/ MsgIncludes(lastError, <<"Forbidden">>)
  THEN "forbidden"
  ELSE IF MsgIncludes(lastError, <<"CORS">>) \/ MsgIncludes(lastError, <<"cross-origin">>)
  THEN "cors"
  ELSE "generic"

\* the last request of the log has ended
Outcome(log, state) == [log EXCEPT ![Len(log)].state = state]

\* the fetch of the last request of the log has rejected: no response
Rejected(log) == [log EXCEPT ![Len(log)].state = "failed", ![Len(log)].threw = TRUE]

\* the answer to the last request of the log signalled rate limiting
Signalled(log) == [log EXCEPT ![Len(log)].signal = TRUE]

\* a request is sent to a transport
Sent(log, transport) ==
  Append(log, [transport |-> transport, state |-> "pending", threw |-> FALSE,
               signal |-> FALSE])

\* lines 350-366: every transport failed
Raise(s) ==
  [s EXCEPT !.pc = "failed", !.error = ScrapeMessage(Classify(s.lastError))]

\* what the catch block of the proxy loop keeps of the failed request
Caught(s, kind) ==
  [s EXCEPT !.lastError = FailureMessage(kind), !.lastKind = kind,
            !.log = IF kind \in ThrowKinds THEN Rejected(s.log)
                    ELSE IF isRateLimitResponse(kind)
                    THEN Signalled(Outcome(s.log, "failed"))
                    ELSE Outcome(s.log, "failed")]

\* a scraper whose retry loop also repeats a request that was answered
\* with a failure
RetryAnsweredFailure(s, l, time, kind) ==
  LET caught == Caught(s, kind)
      backoff == Min(1000 * 2 ^ (s.i - 1), 5000)
  IN IF kind \notin ThrowKinds /\ s.requestAttempts + 1 < MAX_REQUEST_ATTEMPTS
     THEN [scr |-> [caught EXCEPT !.requestAttempts = s.requestAttempts + 1,
                                  !.log = Sent(caught.log, s.i)],
           now |-> time + backoff]
     ELSE IF s.i = PROXY_COUNT
     THEN [scr |-> [caught EXCEPT !.pc = "browser", !.browserAttempts = 0,
                                  !.log = Sent(caught.log, BROWSER)],
           now |-> time]
     ELSE [scr |-> [caught EXCEPT !.i = s.i + 1, !.requestAttempts = 0,
                                  !.log = Sent(caught.log, s.i + 1)],
           now |-> time + backoff + getRequestDelay(l, time + backoff)]

\* a scraper that raises as soon as the last proxy has failed
GiveUpAfterProxies(s, l, time, kind) ==
  IF s.i = PROXY_COUNT
  THEN [scr |-> Raise([s EXCEPT !.lastError = FailureMessage(kind), !.lastKind = kind,
                                !.log = Outcome(s.log, "failed")]),
        now |-> time]
  ELSE [scr |-> [s EXCEPT !.lastError = FailureMessage(kind), !.lastKind = kind,
                          !.log = Sent(Outcome(s.log, "failed"), s.i + 1),
                          !.i = s.i + 1, !.requestAttempts = 0],
        now |-> time]

\* lines 273-287, then 84-125 or 290-305: the catch block of the proxy loop,
\* the sleeps, and the request to the next proxy or, after the last proxy,
\* to the browser endpoint
OnProxyFailure(s, l, time, kind) ==
  LET caught == Caught(s, kind)
      backoff == Min(1000 * 2 ^ (s.i - 1), 5000)
  IN IF s.i = PROXY_COUNT
     THEN [scr |-> [caught EXCEPT !.pc = "browser", !.browserAttempts = 0,
                                  !.log = Sent(caught.log, BROWSER)],
           now |-> time]
     ELSE [scr |-> [caught EXCEPT !.i = s.i + 1, !.requestAttempts = 0,
                                  !.log = Sent(caught.log, s.i + 1)],
           now |-> time + backoff + getRequestDelay(l, time + backoff)]

\* scrapePageContent(url) up to its first request (lines 54-115)
ScrapeBegins ==
  /\ nScrapes < MaxScrapes
  /\ scr.pc \in {"idle", "done", "failed"}
  /\ LET check == isRateLimited(lim, now)
     IN /\ lim' = check.lim
        /\ now' = IF check.limited THEN now + getRequestDelay(lim, now) ELSE now
  /\ scr' = [IdleScr EXCEPT !.pc = "proxy", !.i = 1, !.log = Sent(<<>>, 1)]
  /\ nScrapes' = nScrapes + 1
  /\ UNCHANGED <<serviceVars, appVars, pureVars>>

\* lines 125-139: the fetch of the proxy rejects; it is repeated once, then
\* the error is thrown to the catch block of the proxy loop
ProxyThrows ==
  /\ scr.pc = "proxy"
  /\ \E kind \in ThrowKinds :
       IF scr.requestAttempts + 1 < MAX_REQUEST_ATTEMPTS
       THEN /\ scr' = [scr EXCEPT !.requestAttempts = scr.requestAttempts + 1,
                                  !.log = Sent(Rejected(scr.log), scr.i)]
            /\ now' = now + Min(1000 * 2 ^ scr.requestAttempts, 5000)
       ELSE LET next == OnProxyFailure(scr, lim, now, kind)
            IN scr' = next.scr /\ now' = next.now
  /\ UNCHANGED <<lim, nScrapes, serviceVars, appVars, pureVars>>

\* lines 147-271: the proxy answers
ProxyResponds ==
  /\ scr.pc = "proxy"
  /\ \E answer \in ProxyAnswers, retryAfter \in RetryAfters :
       /\ answer # "rateLimited" => retryAfter = 0
       /\ IF HasPage(answer)
          THEN /\ scr' = [scr EXCEPT !.pc = "done", !.pageText = TextLongA,
                                     !.log = IF isRateLimitResponse(answer)
                                             THEN Signalled(Outcome(scr.log, "ok"))
                                             ELSE Outcome(scr.log, "ok")]
               /\ lim' = recordSuccessfulRequest(lim, now)
               /\ now' = now
          ELSE LET limited == IF isRateLimitResponse(answer)
                              THEN recordRateLimit(lim, now, retryAfter)
                              ELSE lim
                   next == OnProxyFailure(scr, limited, now, answer)
               IN scr' = next.scr /\ now' = next.now /\ lim' = limited
  /\ UNCHANGED <<nScrapes, serviceVars, appVars, pureVars>>

\* requests sent to the browser endpoint so far
BrowserRequests(log) == Cardinality({j \in DOMAIN log : log[j].transport = BROWSER})

\* lines 334-345: the fetch of the browser endpoint rejects
BrowserThrows ==
  /\ scr.pc = "browser"
  /\ IF scr.browserAttempts + 1 < MAX_BROWSER_ATTEMPTS
     THEN /\ scr' = [scr EXCEPT !.browserAttempts = scr.browserAttempts + 1,
                                !.log = Sent(Rejected(scr.log), BROWSER)]
          /\ now' = now + Min(2000 * 2 ^ scr.browserAttempts, 8000)
     ELSE /\ scr' = Raise([scr EXCEPT !.browserAttempts = scr.browserAttempts + 1,
                                      !.log = Rejected(scr.log)])
          /\ now' = now
  /\ UNCHANGED <<lim, nScrapes, serviceVars, appVars, pureVars>>

\* lines 311-326: the browser endpoint answers with a success status: with
\* the page text, or with success false
BrowserResponds ==
  /\ scr.pc = "browser"
  /\ \E success \in BOOLEAN :
       scr' = IF success
              THEN [scr EXCEPT !.pc = "done", !.pageText = TextLongA,
                               !.log = Outcome(scr.log, "ok")]
              ELSE Raise([scr EXCEPT !.log = Outcome(scr.log, "failed")])
  /\ UNCHANGED <<now, lim, nScrapes, serviceVars, appVars, pureVars>>

\* lines 327-333: the browser endpoint answers with another status; the
\* loop goes round again without counting the attempt
BrowserRefuses ==
  /\ scr.pc = "browser"
  /\ BrowserRequests(scr.log) < MaxBrowserRequests
  /\ scr' = [scr EXCEPT !.log = Sent(Outcome(scr.log, "failed"), BROWSER)]
  /\ now' = IF scr.browserAttempts < MAX_BROWSER_ATTEMPTS - 1 THEN now + 2000 ELSE now
  /\ UNCHANGED <<lim, nScrapes, serviceVars, appVars, pureVars>>

FetchNext ==
  \/ ScrapeBegins
  \/ ProxyThrows
  \/ ProxyResponds
  \/ BrowserThrows
  \/ BrowserResponds
  \/ BrowserRefuses

\* what earlier scrapes of the domain can have left in the limiter at time
\* 0: nothing; one success, or five, within the current minute; a rate
\* limit without retry-after recorded just now
LimitStates ==
  {FreshLimit,
   recordSuccessfulRequest(FreshLimit, 0),
   [recordSuccessfulRequest(FreshLimit, 0) EXCEPT !.requestCount = 5],
   recordRateLimit(FreshLimit, 0, 0)}

\* the service and the App are left alone by the fetcher
FetchInit ==
  /\ env = [openrouter |-> FALSE, gemini |-> FALSE]
  /\ config = DEFAULT_CONFIG(env)
  /\ ServiceIdle
  /\ AppIdle
  /\ scr = IdleScr
  /\ lim \in LimitStates
  /\ nScrapes = 0
  /\ PureIdle

FetchSpec == FetchInit /\ [][FetchNext]_vars

(***************************************************************************)
(* The content classifiers as functions of (pageText, url): a caller       *)
(* hands a page to one of them and keeps the sequence it returns.          *)
(***************************************************************************)
\* one keyword of each category of the pattern tables; none of them
\* contains another keyword of the tables
SampleWords ==
  {"testimonial", "blog", "price", "recipe", "faq", "step", "address", "event",
   "review"}

\* "Ingredients: 2 cups rice\n1 tbsp oil\nMethod:\n1. Boil rice\n2. Add oil":
\* 64 characters; the keywords of the pattern tables that occur in it are
\* its words
TextRecipe ==
  [id |-> "recipe", prefix |-> "recipe", len |-> 64,
   words |-> {"ingredients", "method", "cup", "boil", "add"}, byline |-> FALSE]

\* page texts of 200 and of 201 characters, with any of the sample words,
\* and the recipe text
ClassifierTexts ==
  {[id |-> "page", prefix |-> "page", len |-> n, words |-> w, byline |-> FALSE] :
     n \in {MIN_DEFAULT_TEXT, MIN_DEFAULT_TEXT + 1}, w \in SUBSET SampleWords}
  \cup {TextRecipe}

ClassifierUrls == {UrlPlain, [id |-> "https://site.example/blog/p", words |-> {"blog"}]}

Classifiers == {"openrouter", "gemini", "service"}

\* the classifier of each service
Classified(classifier, text, url) ==
  CASE classifier = "openrouter" -> OR_analyzeContentForSchemaTypes(text, url)
    [] classifier = "gemini" -> Gemini_analyzeContentForSchemaTypes(text, url)
    [] OTHER -> detectSchemaTypes(text, url)

\* the pattern table each classifier reads
KeywordsOf(classifier) ==
  CASE classifier = "openrouter" -> OR_Keywords
    [] classifier = "gemini" -> Gemini_Keywords
    [] OTHER -> Detect_Keywords

\* the classifier is called with the page and returns
ClassifyPage ==
  /\ cls.pc = "called"
  /\ cls' = [cls EXCEPT !.pc = "done",
                        !.types = Classified(cls.classifier, cls.text, cls.url)]
  /\ UNCHANGED <<now, serviceVars, appVars, fetchVars, val, syn>>

ClassifyNext == ClassifyPage

\* a page is about to be handed to a classifier; the service, the App and
\* the fetcher are left alone
ClassifyInit ==
  /\ env = [openrouter |-> FALSE, gemini |-> FALSE]
  /\ config = DEFAULT_CONFIG(env)
  /\ ServiceIdle
  /\ AppIdle
  /\ scr = IdleScr
  /\ lim = FreshLimit
  /\ nScrapes = 0
  /\ \E classifier \in Classifiers, text \in ClassifierTexts, url \in ClassifierUrls :
       cls = [pc |-> "called", classifier |-> classifier, text |-> text, url |-> url,
              types |-> <<>>]
  /\ val = IdleVal
  /\ syn = IdleSyn

ClassifySpec == ClassifyInit /\ [][ClassifyNext]_vars

\* the categories of the classifier's table with a keyword in the text or
\* in the URL of the page classified
Matched ==
  {c \in DOMAIN KeywordsOf(cls.classifier) :
     \E k \in KeywordsOf(cls.classifier)[c] : k \in cls.text.words \cup cls.url.words}

(***************************************************************************)
(* C19: the sequence a classifier returns has no type twice and at most    *)
(* three types, whatever categories match.                                 *)
(***************************************************************************)
C19_NoDuplicateAtMostThree ==
  cls.pc = "done" =>
    /\ \A i, j \in DOMAIN cls.types : cls.types[i] = cls.types[j] => i = j
    /\ Len(cls.types) <= 3

(***************************************************************************)
(* C20: when no keyword of the classifier's table occurs in the text or    *)
(* the URL, the classifier returns <<"BlogPosting">> for a text longer     *)
(* than 200 characters and the empty sequence otherwise; when a category   *)
(* matched, BlogPosting is in the result only as a type of the article     *)
(* category, which then matched.                                           *)
(***************************************************************************)
C20_DefaultOnlyWhenNothingMatched ==
  cls.pc = "done" =>
    /\ Matched = {} =>
         cls.types = IF cls.text.len > 200 THEN <<"BlogPosting">> ELSE <<>>
    /\ Matched # {} /\ "BlogPosting" \in Range(cls.types) => "article" \in Matched

\* a page of 201 characters without any keyword was classified BlogPosting
C20_Witness ==
  /\ cls.pc = "done"
  /\ cls.text.words = {} /\ cls.url.words = {}
  /\ cls.text.len = 201
  /\ cls.types = <<"BlogPosting">>

(***************************************************************************)
(* Vocabulary of the properties.                                           *)
(***************************************************************************)
\* the call of slot s has returned a result to its caller
HasReturned(s) == reqs[s].pc = "done"

\* the call of slot s has returned a result it did not take from the cache
Generated(s) == reqs[s].pc = "done" /\ ~reqs[s].hit

\* every classifier of the program finds a candidate type in the page
TypesDetected(r) ==
  /\ Len(detectSchemaTypes(r.text, r.url)) > 0
  /\ Len(OR_analyzeContentForSchemaTypes(r.text, r.url)) > 0
  /\ Len(Gemini_analyzeContentForSchemaTypes(r.text, r.url)) > 0

\* two calls were made with the same url, first 1000 characters and profile
SameLookup(a, b) ==
  /\ a.url.id = b.url.id
  /\ Substring1000(a.text) = Substring1000(b.text)
  /\ a.info = b.info

\* call b of slot t began after call a of slot s had generated and stored its
\* result, for the same lookup, less than the TTL after the entry was stored
Repeats(s, t) ==
  /\ Generated(s)
  /\ reqs[t].call > reqs[s].call
  /\ SameLookup(reqs[s], reqs[t])
  /\ reqs[t].startTime - reqs[s].endTime < CACHE_TTL

(***************************************************************************)
(* C2: when generateSchemas is called a second time with the same url,     *)
(* first 1000 characters of page text and profile, after the first call    *)
(* returned and less than the TTL after its entry was stored, the second   *)
(* call returns the provider and the schemas of the first and contacts no  *)
(* provider.                                                               *)
(***************************************************************************)
C2_RepeatServedFromCache ==
  \A s, t \in Slots :
     Repeats(s, t) =>
       /\ reqs[t].pc = "done"
       /\ reqs[t].hit
       /\ reqs[t].result.schemas = reqs[s].result.schemas
       /\ reqs[t].result.provider = reqs[s].result.provider
       /\ reqs[t].idx = 0
       /\ reqs[t].outcomes = <<>>

\* a repeat with another page text of the same first 1000 characters, made
\* some time after a provider generated the first result
C2_Witness ==
  \E s, t \in Slots :
     /\ Repeats(s, t)
     /\ reqs[s].text # reqs[t].text
     /\ reqs[t].startTime > reqs[s].endTime
     /\ reqs[s].idx > 0
     /\ Len(reqs[t].result.schemas) > 0
     /\ reqs[t].hit

(***************************************************************************)
(* C3: a cache entry whose age has reached the TTL of five minutes is      *)
(* never returned: the lookup of its key removes it and reports a miss, so *)
(* that the call goes on to the providers; an entry younger than the TTL   *)
(* is returned and left in place; a lookup touches no other entry.         *)
(***************************************************************************)
\* slot s begins a call in this step
Begins(s) == nCalls' = nCalls + 1 /\ reqs'[s].call = nCalls'

\* the call ended in the error of its scrape, before any provider was tried
RaisedByScrape(r) ==
  r.pc = "error" /\ r.error[1] \in {ScrapeMessage(c) : c \in ErrorClasses}

\* the call of slot s makes its cache lookup in this step: as it begins,
\* or as the scrape it had to wait for returns
LooksUp(s) ==
  /\ Begins(s) \/ Scraping(reqs[s])
  /\ ~Scraping(reqs'[s])
  /\ ~RaisedByScrape(reqs'[s])

C3_LookupStep ==
  \A s \in Slots :
     LooksUp(s) =>
       LET k == reqs'[s].key
       IN /\ \A j \in DOMAIN cache \ {k} : j \in DOMAIN cache' /\ cache'[j] = cache[j]
          /\ k \in DOMAIN cache =>
               IF now - cache[k].timestamp >= CACHE_TTL
               THEN /\ ~reqs'[s].hit
                    /\ reqs'[s].plan = EnabledProviders(config)
                    /\ \/ reqs'[s].pc = "provider" /\ k \notin DOMAIN cache'
                       \/ /\ reqs'[s].plan = <<>>
                          /\ k \in DOMAIN cache' => cache'[k].timestamp = now
               ELSE /\ reqs'[s].hit
                    /\ reqs'[s].pc = "done"
                    /\ reqs'[s].result.schemas = cache[k].schemas
                    /\ k \in DOMAIN cache'
                    /\ cache'[k] = cache[k]

C3_ExpiredEntryEvicted == [][C3_LookupStep]_vars

\* a call found the entry of an earlier call expired: the entry is gone and
\* a provider is being asked again
C3_Witness ==
  \E s, t \in Slots :
     /\ Generated(s)
     /\ reqs[t].call > reqs[s].call
     /\ reqs[t].key = reqs[s].key
     /\ reqs[t].startTime - reqs[s].endTime >= CACHE_TTL
     /\ reqs[t].pc = "provider"
     /\ reqs[t].key \notin DOMAIN cache

(***************************************************************************)
(* C4: on a cache miss the providers contacted are a prefix of the enabled *)
(* providers in ascending priority: no disabled provider is contacted, a   *)
(* provider is contacted only after every provider before it threw, timed  *)
(* out or returned an empty list, and none is contacted after the first    *)
(* that returned a non-empty list.                                         *)
(***************************************************************************)
PlanIsSortedEnabled(plan, providers) ==
  /\ {plan[i].key : i \in DOMAIN plan}
       = {k \in Range(ProviderKeys) : providers[k].enabled}
  /\ \A i, j \in DOMAIN plan :
       i < j => /\ plan[i].key # plan[j].key
                /\ providers[plan[i].key].priority <= providers[plan[j].key].priority

Failed(o) == o.kind \in {"threw", "timeout", "empty"}

ContactedPrefix(r) ==
  /\ r.idx <= Len(r.plan)
  /\ Len(r.outcomes) = IF r.pc = "provider" THEN r.idx - 1 ELSE r.idx
  /\ \A i \in DOMAIN r.outcomes :
       /\ r.outcomes[i].key = r.plan[i].key
       /\ i < r.idx => Failed(r.outcomes[i])
       /\ ~Failed(r.outcomes[i]) =>
            r.pc = "done" /\ r.idx = i /\ r.usedProvider = r.plan[i].name
  /\ r.pc \in {"done", "error"} /\ ~r.hit
       /\ (\A i \in DOMAIN r.outcomes : Failed(r.outcomes[i]))
       => r.idx = Len(r.plan)

C4_Step ==
  \A s \in Slots :
     /\ LooksUp(s) /\ ~reqs'[s].hit => PlanIsSortedEnabled(reqs'[s].plan, config.providers)
     /\ reqs'[s].hit => reqs'[s].idx = 0 /\ reqs'[s].outcomes = <<>>
     /\ ContactedPrefix(reqs'[s])

C4_ProvidersInPriorityOrder == [][C4_Step]_vars

\* the provider listed second was contacted first, failed, and the one
\* listed first answered
C4_Witness ==
  \E s \in Slots :
     /\ Generated(s)
     /\ Len(reqs[s].outcomes) = 2
     /\ reqs[s].outcomes[1].key = "gemini"
     /\ reqs[s].outcomes[2].key = "openai"
     /\ reqs[s].outcomes[2].kind = "nonempty"
     /\ ~config.providers["templates"].enabled

(***************************************************************************)
(* C5: a provider that has not settled when its configured timeout has     *)
(* elapsed counts as failed at that moment with the error 'Provider        *)
(* timeout', and the loop goes on to the next provider or to the fallback: *)
(* no provider call is awaited for longer than its timeout.                *)
(***************************************************************************)
C5_TimeoutBoundsEachProvider ==
  \A s \in Slots :
     LET r == reqs[s]
     IN /\ r.pc = "provider" => now - r.callStart <= r.plan[r.idx].timeout
        /\ \A i \in DOMAIN r.outcomes :
             LET o == r.outcomes[i]
             IN /\ o.elapsed <= r.plan[i].timeout
                /\ o.kind = "timeout" =>
                     /\ o.elapsed = r.plan[i].timeout
                     /\ o.error = "Provider timeout"
                     /\ i < Len(r.outcomes) =>
                          r.outcomes[i + 1].start = o.start + r.plan[i].timeout
                     /\ i = Len(r.outcomes) =>
                          /\ r.lastError = "Provider timeout"
                          /\ \/ /\ r.pc = "provider"
                                /\ r.idx = i + 1
                                /\ r.callStart = o.start + r.plan[i].timeout
                             \/ /\ r.pc \in {"done", "error"}
                                /\ i = Len(r.plan)
                                /\ r.endTime = o.start + r.plan[i].timeout
                /\ o.kind # "timeout" => o.elapsed < r.plan[i].timeout

\* the first provider timed out and the second is being asked, at the very
\* moment the first timer fired
C5_Witness ==
  \E s \in Slots :
     /\ reqs[s].pc = "provider"
     /\ reqs[s].idx = 2
     /\ reqs[s].outcomes[1].kind = "timeout"
     /\ reqs[s].callStart = reqs[s].startTime + reqs[s].plan[1].timeout
     /\ now = reqs[s].callStart

(***************************************************************************)
(* C6: a provider failure does not leave generateSchemas while a provider  *)
(* or the fallback synthesis is untried: once it has the page text, the    *)
(* call raises only when every enabled provider was tried without a        *)
(* non-empty list and the fallback synthesis failed, and the error raised  *)
(* then carries the message of the last provider failure.  (The error of a *)
(* scrape made for a call without page text is no provider failure.)       *)
(***************************************************************************)
\* the message of the last provider call that threw or timed out
LastFailure(outcomes) ==
  LET failures == {i \in DOMAIN outcomes : outcomes[i].kind \in {"threw", "timeout"}}
  IN IF failures = {} THEN "Unknown error"
     ELSE outcomes[CHOOSE i \in failures : \A j \in failures : j <= i].error

ModelProviderNames == {"Gemini Flash Only (Fastest)", "Legacy Gemini Service"}

\* the candidate types of the provider stage the environment selects
StageCandidates(r) ==
  IF env.openrouter THEN OR_analyzeContentForSchemaTypes(r.text, r.url)
  ELSE Gemini_analyzeContentForSchemaTypes(r.text, r.url)

IsFallbackEntry(e) == e.description = "Fallback schema generated from page content"

\* the list a model provider returned has a fallback schema appended
FallbackAppended(list) ==
  /\ Len(list) > 0
  /\ IsFallbackEntry(list[Len(list)])

C1_NonEmptyAndSettled ==
  \A s \in Slots :
     HasReturned(s) /\ TypesDetected(reqs[s]) =>
       /\ Len(reqs[s].result.schemas) > 0
       /\ \A i \in DOMAIN reqs[s].result.schemas :
            reqs[s].result.schemas[i].validationStatus \in {"valid", "invalid"}

(***************************************************************************)
(* C7: every entry of a returned schema list that is marked 'valid' has a  *)
(* jsonLd whose @type is the entry's schemaType, or an array holding it,   *)
(* and whose @context names schema.org, whichever provider produced it.    *)
(***************************************************************************)
C7_ValidEntriesAgreeOnType ==
  \A s \in Slots :
     HasReturned(s) =>
       \A i \in DOMAIN reqs[s].result.schemas :
          LET e == reqs[s].result.schemas[i]
              parsed == JSONparse(e.jsonLd)
          IN e.validationStatus = "valid" =>
               /\ parsed.ok
               /\ parsed.val.ctx
               /\ TypeMatch(parsed.val.type, e.schemaType)

(***************************************************************************)
(* C8: a provider schema whose jsonLd cannot be parsed stays in the result *)
(* as an 'invalid' entry whose jsonLd is a diagnostic wrapper holding the  *)
(* error and the raw string, so the jsonLd of every entry of a returned    *)
(* list is syntactically valid JSON.                                       *)
(***************************************************************************)
C8_EveryJsonLdParses ==
  \A s \in Slots :
     HasReturned(s) =>
       \A i \in DOMAIN reqs[s].result.schemas :
          JSONparse(reqs[s].result.schemas[i].jsonLd).ok

(***************************************************************************)
(* C10: the cut to config.maxSchemas is made only on the value returned:   *)
(* the entry a call writes to the cache holds the whole list as produced   *)
(* and validated.                                                          *)
(***************************************************************************)
C10_CacheHoldsFullList ==
  \A s \in Slots :
     /\ Generated(s)
     /\ reqs[s].key \in DOMAIN cache
     /\ cache[reqs[s].key].timestamp = reqs[s].endTime
     /\ cache[reqs[s].key].provider = reqs[s].usedProvider
     => cache[reqs[s].key].schemas = reqs[s].schemas

(***************************************************************************)
(* C11: a generateSchemas call given the empty page text does not fetch    *)
(* the URL, does not raise, and returns an empty schema list: no candidate *)
(* type is detected and no fallback schema is synthesized.                 *)
(***************************************************************************)
C11_EmptyTextReturnsEmpty ==
  \A s \in Slots :
     LET r == reqs[s]
     IN r.call > 0 /\ r.given = TextEmpty =>
          /\ ~r.fetched
          /\ r.pc # "error"
          /\ r.pc = "done" => r.result.schemas = <<>> /\ r.result.provider # "Fallback"

(***************************************************************************)
(* C12: once the 20 s deadline of handleAnalyze has expired during the     *)
(* provider loop, the loop is no longer running and the analysis has ended *)
(* with a synthesized fallback schema on display, not with an error.       *)
(***************************************************************************)
C12_DeadlineAbortsLoopIntoFallback ==
  app.expired =>
    /\ ~InFlight(reqs[app.slot])
    /\ app.error = <<>>
    /\ app.hasSchemas
    /\ \E i \in DOMAIN app.schemas :
         app.schemas[i].description
           = "Fallback schema generated when all providers failed"

(***************************************************************************)
(* C16: after handleAnalyze has ended with a classified error of the       *)
(* scrape, whichever its class, the manual content input is open or the    *)
(* error panel offers the button that opens it.                            *)
(***************************************************************************)
C16_ManualInputAfterAnyFetchError ==
  app.pc = "idle" /\ app.failure # None =>
    app.showManualInput \/ ManualButtonShown(app)

(***************************************************************************)
(* C13: scrapePageContent sends its requests to proxy 1, proxy 2, proxy 3  *)
(* and the browser endpoint in this order, skipping none; a request is     *)
(* sent only when every earlier request has failed; the call returns the   *)
(* page content exactly when a request succeeded, and that request is the  *)
(* last one sent; the call raises a classified error only after a request  *)
(* to the browser endpoint has failed as well.                             *)
(***************************************************************************)
C13_TransportsInOrder ==
  LET log == scr.log
      n == Len(log)
  IN /\ n > 0 => log[1].transport = 1
     /\ \A j \in 1..(n - 1) :
          /\ log[j + 1].transport \in {log[j].transport, log[j].transport + 1}
          /\ log[j].state = "failed"
     /\ scr.pc = "done" <=> n > 0 /\ log[n].state = "ok"
     /\ scr.pc \in {"proxy", "browser"} <=> n > 0 /\ log[n].state = "pending"
     /\ scr.pc = "proxy" => log[n].transport = scr.i /\ scr.i \in 1..PROXY_COUNT
     /\ scr.pc = "browser" => log[n].transport = BROWSER
     /\ scr.pc = "failed" =>
          /\ log[n].transport = BROWSER
          /\ log[n].state = "failed"
          /\ scr.error \in {ScrapeMessage(c) : c \in ErrorClasses}

\* every proxy failed, one of them after a repeated request, the browser
\* endpoint failed as well, and the call raised
C13_Witness ==
  /\ scr.pc = "failed"
  /\ {scr.log[j].transport : j \in DOMAIN scr.log} = 1..BROWSER
  /\ Len(scr.log) > BROWSER

(***************************************************************************)
(* C14: after the proxies have failed, scrapePageContent sends at most two *)
(* requests to the browser endpoint, whatever the endpoint answers.        *)
(***************************************************************************)
C14_AtMostTwoBrowserRequests == BrowserRequests(scr.log) <= MAX_BROWSER_ATTEMPTS

ExpectedClass(kind) ==
  CASE kind = "timeout" -> "timeout"
    [] kind = "status404" -> "notFound"
    [] kind = "status403" -> "forbidden"
    [] kind = "cors" -> "cors"
    [] OTHER -> "generic"

C17_BackoffWindowsNeverShrink ==
  \A j \in DOMAIN lim.windows :
     /\ j > 1 => lim.windows[j].seconds >= lim.windows[j - 1].seconds
     /\ lim.windows[j].exponential => lim.windows[j].seconds <= BACKOFF_MAX_S
(***************************************************************************)
(* validateSchema as a function of (schema, schemaType): a caller hands    *)
(* it a parsed value and a requested type, and it returns a result or      *)
(* ends in a TypeError.                                                    *)
(***************************************************************************)
\* the types of the rule table, Recipe, and a type without rules
ValidatorTypes == RuleTypes \cup {"Recipe", "WebPage"}

\* the required fields the specification documents: the table of the code,
\* and for Recipe name, description, recipeIngredient, recipeInstructions
DocumentedRequired(schemaType) ==
  IF schemaType = "Recipe"
  THEN <<"name", "description", "recipeIngredient", "recipeInstructions">>
  ELSE RequiredFields(schemaType)

\* the properties a value handed to the validator may carry
ValidatorFields(schemaType) ==
  Range(DocumentedRequired(schemaType)) \cup {"description", "url", "image"}

\* the values handed to the validator: a scalar, and objects whose @context
\* is a string with "schema.org", missing, or an object; with or without
\* @type; with any of the properties, at most one of which has an empty
\* string or a non-string value; a url may be relative
ValidatorValues(schemaType) ==
  {JValue("scalar", FALSE, NoType, {}, {}, {}, TRUE)}
  \cup
  {JValue("object", context = "schema.org",
          IF typed THEN ScalarType(schemaType) ELSE NoType,
          fields, blank, odd \cup (IF context = "object" THEN {"@context"} ELSE {}), http) :
     context \in {"schema.org", "missing", "object"}, typed \in BOOLEAN,
     fields \in SUBSET ValidatorFields(schemaType),
     blank \in {{}} \cup {{f} : f \in ValidatorFields(schemaType)},
     odd \in {{}} \cup {{f} : f \in ValidatorFields(schemaType)},
     http \in BOOLEAN}

\* the well-formed ones: a falsy property is not truthy, a non-string value
\* is truthy, one deviation at most, and httpUrl only matters for a string url
WellFormed(v) ==
  /\ v.blank \cap v.fields = {}
  /\ (v.odd \ {"@context"}) \subseteq v.fields
  /\ v.blank = {} \/ v.odd \ {"@context"} = {}
  /\ ~v.httpUrl => "url" \in v.fields \ v.odd /\ v.blank = {} /\ v.odd \ {"@context"} = {}

\* validateSchema returns
ValidateReturns ==
  /\ val.pc = "called"
  /\ ~validateThrows(val.schema)
  /\ val' = [val EXCEPT !.pc = "returned",
                        !.result = validateSchema(val.schema, val.schemaType)]
  /\ UNCHANGED <<now, serviceVars, appVars, fetchVars, cls, syn>>

\* validateSchema ends in a TypeError
ValidateThrows ==
  /\ val.pc = "called"
  /\ validateThrows(val.schema)
  /\ val' = [val EXCEPT !.pc = "threw", !.threw = TRUE]
  /\ UNCHANGED <<now, serviceVars, appVars, fetchVars, cls, syn>>

ValidateNext == ValidateReturns \/ ValidateThrows

ValidateInit ==
  /\ env = [openrouter |-> FALSE, gemini |-> FALSE]
  /\ config = DEFAULT_CONFIG(env)
  /\ ServiceIdle
  /\ AppIdle
  /\ scr = IdleScr
  /\ lim = FreshLimit
  /\ nScrapes = 0
  /\ cls = IdleCls
  /\ syn = IdleSyn
  /\ \E schemaType \in ValidatorTypes :
       \E schema \in {v \in ValidatorValues(schemaType) : WellFormed(v)} :
          val = [IdleVal EXCEPT !.pc = "called", !.schema = schema,
                                !.schemaType = schemaType]

ValidateSpec == ValidateInit /\ [][ValidateNext]_vars

\* the call of validateSchema has ended
Validated == val.pc \in {"returned", "threw"}

\* a property the value does not carry at all
Absent(field) == field \notin val.schema.fields \cup val.schema.blank

\* the error conditions the specification lists, on the arguments
ErrorConditions ==
  \/ val.schema.kind # "object"
  \/ ~val.schema.ctx
  \/ val.schema.type.names = <<>>
  \/ \E i \in DOMAIN RequiredFields(val.schemaType) :
        Absent(RequiredFields(val.schemaType)[i])

(***************************************************************************)
(* C21: validateSchema returns isValid = FALSE with a non-empty errors     *)
(* list when the value is not an object, @context is missing or lacks      *)
(* "schema.org", @type is missing or a required field of the requested     *)
(* type is absent, and it returns isValid = TRUE with an empty errors list *)
(* in every other case, whatever would be a warning or a suggestion.       *)
(***************************************************************************)
C21_InvalidExactlyOnErrorConditions ==
  Validated =>
    /\ val.pc = "returned"
    /\ val.result.isValid = (val.result.errors = <<>>)
    /\ (val.result.errors # <<>>) = ErrorConditions
\* the types the required-field table is documented to cover
DocumentedTypes ==
  {"Article", "BlogPosting", "Product", "Recipe", "FAQPage", "HowTo",
   "LocalBusiness", "Event", "Review", "Testimonial"}

(***************************************************************************)
(* C22: for each of the ten documented types, a value that lacks one of    *)
(* the type's required fields (for Recipe: name, description,              *)
(* recipeIngredient, recipeInstructions) is returned with isValid = FALSE. *)
(***************************************************************************)
C22_MissingRequiredFieldIsInvalid ==
  (/\ val.pc = "returned"
   /\ val.schemaType \in DocumentedTypes
   /\ \E i \in DOMAIN DocumentedRequired(val.schemaType) :
         Absent(DocumentedRequired(val.schemaType)[i]))
  => ~val.result.isValid
(***************************************************************************)
(* The synthesizers as functions of (schemaType, pageText, websiteInfo):   *)
(* createFallbackSchema, generateFallbackSchemas and the local templates   *)
(* fed by extractContentForTemplate.  Beside the schema each builds, the   *)
(* model keeps where the value of every property comes from: the page      *)
(* text, the profile, the URL of the page, a literal of the code           *)
(* ("placeholder") or new Date() ("clock").  The page texts of the model   *)
(* have a second non-blank line when they have a first, and no date.       *)
(***************************************************************************)
\* lines[0]?.trim() || 'Page Content'
TitleOrigin(text) == IF text.len = 0 THEN "placeholder" ELSE "text"

\* lines.slice(1, 3).join(' ').substring(0, 200).trim() || 'Content from the page'
DescriptionOrigin(text) == IF text.len = 0 THEN "placeholder" ELSE "text"

\* createFallbackSchema, property by property
FallbackOrigins(schemaType, text, info) ==
  [f \in FallbackFields(schemaType, text, info) |->
     CASE f \in {"name", "headline"} -> TitleOrigin(text)
       [] f \in {"description", "reviewBody"} -> DescriptionOrigin(text)
       [] f \in {"publisher", "brand"} -> "profile"
       [] f = "author" ->
            IF schemaType \in {"Review", "Testimonial"} THEN "text" ELSE "profile"
       [] f = "itemReviewed" ->
            IF info.companyName # "" THEN "profile" ELSE TitleOrigin(text)]

\* generateFallbackSchemas, property by property
LastResortOrigins(text, info) ==
  [f \in JSONparse(generateFallbackSchemas(text, info)[1].jsonLd).val.fields |->
     CASE f = "headline" -> TitleOrigin(text)
       [] f = "description" -> DescriptionOrigin(text)
       [] f \in {"author", "publisher"} -> "profile"
       [] f = "datePublished" -> "clock"]

\* the generators of getSchemaTemplates over extractContentForTemplate,
\* property by property
TemplateOrigins(schemaType, text, info) ==
  [f \in TemplateFields(schemaType, text, info) |->
     CASE f = "headline" -> TitleOrigin(text)
       [] f = "name" ->
            IF schemaType = "LocalBusiness"
            THEN (IF info.companyName # "" THEN "profile" ELSE "placeholder")
            ELSE TitleOrigin(text)
       [] f \in {"description", "reviewBody"} -> DescriptionOrigin(text)
       [] f = "url" -> "url"
       [] f = "author" -> IF text.byline THEN "text" ELSE "profile"
       [] f \in {"publisher", "brand", "organizer"} -> "profile"
       [] f = "itemReviewed" -> IF info.companyName # "" THEN "profile" ELSE "placeholder"
       [] f \in {"datePublished", "dateModified", "startDate"} -> "clock"
       [] OTHER -> "placeholder"]

SynthTypes == TemplateTypes \cup {"NewsArticle", "WebPage"}

SynthTexts == {TextEmpty, TextShort, TextTestimonial}

\* profile objects with any of company name and founder name
SynthProfiles ==
  {[EmptyInfo EXCEPT !.companyName = c, !.founderName = f] :
     c \in {"", "Acme"}, f \in {"", "Ada"}}

\* createFallbackSchema(schemaType, pageText, websiteInfo) returns
SynthFallback ==
  /\ syn.pc = "called"
  /\ syn.synthesizer = "createFallbackSchema"
  /\ syn' = [syn EXCEPT
       !.pc = "done",
       !.made = <<createFallbackSchema(syn.schemaType, syn.text, syn.info)>>,
       !.origins = FallbackOrigins(syn.schemaType, syn.text, syn.info)]
  /\ UNCHANGED <<now, serviceVars, appVars, fetchVars, cls, val>>

\* generateFallbackSchemas(pageText, websiteInfo) returns
SynthLastResort ==
  /\ syn.pc = "called"
  /\ syn.synthesizer = "generateFallbackSchemas"
  /\ syn' = [syn EXCEPT
       !.pc = "done",
       !.made = generateFallbackSchemas(syn.text, syn.info),
       !.origins = LastResortOrigins(syn.text, syn.info)]
  /\ UNCHANGED <<now, serviceVars, appVars, fetchVars, cls, val>>

\* generateWithLocalTemplate(schemaType, content, websiteInfo) returns, or
\* throws for a type without template
SynthTemplate ==
  /\ syn.pc = "called"
  /\ syn.synthesizer = "generateWithLocalTemplate"
  /\ LET t == generateWithLocalTemplate(syn.schemaType, syn.text, syn.info)
     IN syn' = [syn EXCEPT
          !.pc = IF t.made THEN "done" ELSE "threw",
          !.made = IF t.made THEN <<t.schema>> ELSE <<>>,
          !.origins = IF t.made
                      THEN TemplateOrigins(syn.schemaType, syn.text, syn.info)
                      ELSE <<>>]
  /\ UNCHANGED <<now, serviceVars, appVars, fetchVars, cls, val>>

SynthNext == SynthFallback \/ SynthLastResort \/ SynthTemplate

SynthInit ==
  /\ env = [openrouter |-> FALSE, gemini |-> FALSE]
  /\ config = DEFAULT_CONFIG(env)
  /\ ServiceIdle
  /\ AppIdle
  /\ scr = IdleScr
  /\ lim = FreshLimit
  /\ nScrapes = 0
  /\ cls = IdleCls
  /\ val = IdleVal
  /\ \E synthesizer \in {"createFallbackSchema", "generateFallbackSchemas",
                         "generateWithLocalTemplate"},
        schemaType \in SynthTypes, text \in SynthTexts, info \in SynthProfiles :
       /\ synthesizer = "generateFallbackSchemas" => schemaType = "BlogPosting"
       /\ syn = [IdleSyn EXCEPT !.pc = "called", !.synthesizer = synthesizer,
                                !.schemaType = schemaType, !.text = text,
                                !.info = info]

SynthSpec == SynthInit /\ [][SynthNext]_vars

(***************************************************************************)
(* C23: every schema a synthesizer builds and marks 'valid' passes         *)
(* validateSchema for the type it was built for, whatever the type, the    *)
(* page text and the profile.                                              *)
(***************************************************************************)
C23_SynthesizedValidPassesValidator ==
  syn.pc = "done" =>
    \A i \in DOMAIN syn.made :
       syn.made[i].validationStatus = "valid" =>
         LET parsed == JSONparse(syn.made[i].jsonLd)
         IN /\ parsed.ok
            /\ ~validateThrows(parsed.val)
            /\ validateSchema(parsed.val, syn.made[i].schemaType).isValid
(***************************************************************************)
(* C24: in every schema a synthesizer builds, the value of each property   *)
(* other than @context and @type comes from the page text or from the      *)
(* profile (or is the URL of the page itself): none is a literal of the    *)
(* code or the current time.                                               *)
(***************************************************************************)
C24_NoFabricatedProperty ==
  syn.pc = "done" =>
    \A f \in DOMAIN syn.origins : syn.origins[f] \in {"text", "profile", "url"}
\* the provider whose list the call of r returned, and the candidate types
\* its stage worked from
SucceededKey(r) == r.outcomes[Len(r.outcomes)].key

ProviderCandidates(r) ==
  IF SucceededKey(r) = "templates" THEN detectSchemaTypes(r.text, r.url)
  ELSE StageCandidates(r)

(***************************************************************************)
(* C25: the list a provider succeeds with has exactly                      *)
(* min(len(candidateTypes), 3) schemas, the i-th of the i-th candidate     *)
(* type.  Stated for calls with at least one candidate type, on the list   *)
(* before it is cut to maxSchemas.                                         *)
(***************************************************************************)
C25_OneSchemaPerCandidateType ==
  \A s \in Slots :
     LET r == reqs[s]
     IN (/\ Generated(s)
         /\ r.usedProvider # "Fallback"
         /\ r.outcomes # <<>>
         /\ ProviderCandidates(r) # <<>>)
        => /\ Len(r.schemas) = Min(Len(ProviderCandidates(r)), 3)
           /\ \A i \in DOMAIN r.schemas :
                 r.schemas[i].schemaType = ProviderCandidates(r)[i]
(***************************************************************************)
(* C26: the text with an "Ingredients:" list followed by a "Method:"       *)
(* section of numbered steps, on a URL without keyword, is classified as   *)
(* exactly <<"Recipe">> by the classifier of each provider.                *)
(***************************************************************************)
C26_RecipeTextIsRecipeOnly ==
  (cls.pc = "done" /\ cls.text = TextRecipe /\ cls.url.words = {})
  => cls.types = <<"Recipe">>
\* the requests of the scrape sent to proxy p, as positions of the log
RequestsTo(p) == {j \in DOMAIN scr.log : scr.log[j].transport = p}

(***************************************************************************)
(* C27: a scrape sends at most two requests to one proxy; a request is     *)
(* followed by another one to the same proxy only when its fetch rejected  *)
(* (no response: network error or timeout); a request that was answered    *)
(* with a failure (a non-success status, an empty body) is followed, if by *)
(* anything, by a request to the next transport.                           *)
(***************************************************************************)
C27_RetryOnlyAfterTransportFailure ==
  \A p \in 1..PROXY_COUNT :
     /\ Cardinality(RequestsTo(p)) <= MAX_REQUEST_ATTEMPTS
     /\ \A j \in RequestsTo(p) :
          j < Len(scr.log) =>
            /\ scr.log[j].state = "failed"
            /\ IF scr.log[j + 1].transport = p
               THEN scr.log[j].threw
               ELSE scr.log[j + 1].transport = p + 1
            /\ ~scr.log[j].threw => scr.log[j + 1].transport = p + 1

\* the first proxy was asked twice, its first fetch having rejected, and
\* answered the second request with a failure; the second proxy was asked
\* next
C27_Witness ==
  /\ Len(scr.log) >= 3
  /\ scr.log[1].transport = 1 /\ scr.log[1].threw
  /\ scr.log[2].transport = 1 /\ scr.log[2].state = "failed" /\ ~scr.log[2].threw
  /\ scr.log[3].transport = 2
(***************************************************************************)
(* C28: a proxy response that signals rate limiting, whatever its status,  *)
(* is a failure of that proxy, its body is not returned as the page, and   *)
(* the signal is on record in the rate limiter until a request succeeds.   *)
(***************************************************************************)
C28_RateLimitSignalFailsTheProxy ==
  /\ \A j \in DOMAIN scr.log : scr.log[j].signal => scr.log[j].state = "failed"
  /\ (scr.pc # "done" /\ \E j \in DOMAIN scr.log : scr.log[j].signal)
     => lim.windows # <<>>
\* a keyword of the testimonial category occurs in the text or the URL of
\* the page classified
TestimonialMatched == HasKeywords(Gemini_Keywords.testimonial, cls.text, cls.url)

\* an article keyword other than "review" and "opinion" occurs in the text
StrongArticleSignal ==
  \E k \in Gemini_Keywords.article \ {"review", "opinion"} : Includes(cls.text, k)

(***************************************************************************)
(* C29: when a testimonial keyword matches, the Gemini classifier returns  *)
(* the testimonial types alone if the text has no strong article keyword,  *)
(* and otherwise nothing but the testimonial types and the types of the    *)
(* article category.                                                       *)
(***************************************************************************)
C29_TestimonialWithArticleTypesOnly ==
  (cls.pc = "done" /\ cls.classifier = "gemini" /\ TestimonialMatched) =>
    IF ~StrongArticleSignal
    THEN cls.types = PatternTypes.testimonial
    ELSE Range(cls.types) \subseteq
           Range(PatternTypes.testimonial) \cup Range(PatternTypes.article)
\* the distinct types of the matched categories among the first n of the
\* early-exit classifier's priority order
Collected(n) ==
  UNION {Range(PatternTypes[OR_PriorityOrder[i]]) :
           i \in {j \in 1..n : OR_PriorityOrder[j] \in Matched}}

\* the places of the priority order where the early-exit classifier may
\* stop: a match of 'product' or 'article', or a match with which at least
\* two distinct types are collected
StopPlaces ==
  {n \in DOMAIN OR_PriorityOrder :
     /\ OR_PriorityOrder[n] \in Matched
     /\ \/ OR_PriorityOrder[n] \in {"product", "article"}
        \/ Cardinality(Collected(n)) >= 2}

\* the first of them
StopAt == CHOOSE n \in StopPlaces : \A m \in StopPlaces : n <= m

(***************************************************************************)
(* C30: the early-exit classifier stops at the first category, in its      *)
(* priority order, that matches and is 'product' or 'article' or brings    *)
(* the distinct types collected to two or more. Stopped at 'product' or    *)
(* 'article' it returns at most two types, the first type of that category *)
(* among them; stopped elsewhere it returns the types collected so far. In *)
(* both cases every type returned comes from a category up to the stop.    *)
(***************************************************************************)
C30_EarlyExitIgnoresLaterCategories ==
  (cls.pc = "done" /\ cls.classifier = "openrouter" /\ StopPlaces # {}) =>
    /\ Range(cls.types) \subseteq Collected(StopAt)
    /\ IF OR_PriorityOrder[StopAt] \in {"product", "article"}
       THEN /\ Len(cls.types) <= 2
            /\ PatternTypes[OR_PriorityOrder[StopAt]][1] \in Range(cls.types)
       ELSE Range(cls.types) = Collected(StopAt)

\* a page with keywords of 'faq', 'howto' and 'event' and none of 'product'
\* or 'article' was classified FAQPage and HowTo: 'event' came too late
C30_Witness ==
  /\ cls.pc = "done" /\ cls.classifier = "openrouter"
  /\ {"faq", "howto", "event"} \subseteq Matched
  /\ Matched \cap {"product", "article"} = {}
  /\ cls.types = <<"FAQPage", "HowTo">>
\* the candidate types any classifier of the program detects for the page
\* the call of r worked with
AnyCandidates(r) ==
  Range(detectSchemaTypes(r.text, r.url))
  \cup Range(OR_analyzeContentForSchemaTypes(r.text, r.url))
  \cup Range(Gemini_analyzeContentForSchemaTypes(r.text, r.url))

(***************************************************************************)
(* C31: the schemaType of every entry of the list generateSchemas returns  *)
(* is a candidate type detected for the page text and the URL of the call, *)
(* the entries of the orchestrator's own fallback synthesis included.      *)
(***************************************************************************)
C31_EveryEntryOfACandidateType ==
  \A s \in Slots :
     HasReturned(s) =>
       \A i \in DOMAIN reqs[s].result.schemas :
          reqs[s].result.schemas[i].schemaType \in AnyCandidates(reqs[s])
\* a validationError that gives a reason: at least one message, none with
\* an empty text
GivesReason(error) ==
  /\ error # NoError
  /\ \A i \in DOMAIN error : error[i][1] # ""

(***************************************************************************)
(* C32: every entry of a returned list is 'valid' or 'invalid'; an         *)
(* 'invalid' entry carries a validationError with a reason and a 'valid'   *)
(* entry carries none.                                                     *)
(***************************************************************************)
C32_ErrorExactlyWhenInvalid ==
  \A s \in Slots :
     HasReturned(s) =>
       \A i \in DOMAIN reqs[s].result.schemas :
          LET e == reqs[s].result.schemas[i]
          IN /\ e.validationStatus \in {"valid", "invalid"}
             /\ e.validationStatus = "invalid" => GivesReason(e.validationError)
             /\ e.validationStatus = "valid" => e.validationError = NoError

\* a returned list with an 'invalid' entry that carries its reason and a
\* 'valid' entry that carries none
C32_Witness ==
  \E s \in Slots :
     /\ HasReturned(s)
     /\ \E i, j \in DOMAIN reqs[s].result.schemas :
          /\ reqs[s].result.schemas[i].validationStatus = "invalid"
          /\ GivesReason(reqs[s].result.schemas[i].validationError)
          /\ reqs[s].result.schemas[j].validationStatus = "valid"
          /\ reqs[s].result.schemas[j].validationError = NoError
(***************************************************************************)
(* C34: when the stage of a model provider appended its fallback schema,   *)
(* the list generateSchemas returns, cut to config.maxSchemas, holds a     *)
(* 'valid' entry.                                                          *)
(***************************************************************************)
C34_TruncationKeepsAValidEntry ==
  \A s \in Slots :
     LET r == reqs[s]
     IN (/\ Generated(s)
         /\ r.usedProvider \in ModelProviderNames
         /\ FallbackAppended(r.schemas)
         /\ config.maxSchemas >= 1)
        => \E i \in DOMAIN r.result.schemas :
              r.result.schemas[i].validationStatus = "valid"
(***************************************************************************)
(* C35: when generateSchemas validated its schemas, the validationResults  *)
(* it returns are the validator's results for the schemas it returns, one  *)
(* for each, in the same order.                                            *)
(***************************************************************************)
C35_ValidationResultsAligned ==
  \A s \in Slots :
     LET res == reqs[s].result
     IN (HasReturned(s) /\ res.validationResults # <<>>)
        => /\ Len(res.validationResults) = Len(res.schemas)
           /\ res.validationResults =
                ValidationResults([enableValidation |-> TRUE], res.schemas)
\* the call of r ended in the orchestrator's fallback synthesis
BySynthesis(r) == r.pc = "done" /\ ~r.hit /\ r.usedProvider = "Fallback"

(***************************************************************************)
(* C36: a call with the same url, first 1000 characters and profile as an  *)
(* earlier call that ended in the fallback synthesis, begun less than the  *)
(* TTL after that result was stored, returns provider 'Fallback' with the  *)
(* same schemas from the cache and calls no provider.                      *)
(***************************************************************************)
C36_FallbackResultIsCached ==
  \A s, t \in Slots :
     (Repeats(s, t) /\ BySynthesis(reqs[s])) =>
       /\ reqs[t].pc = "done"
       /\ reqs[t].hit
       /\ reqs[t].result.provider = "Fallback"
       /\ reqs[t].result.schemas = reqs[s].result.schemas
       /\ reqs[t].plan = <<>>
       /\ reqs[t].outcomes = <<>>

\* the first call fell back after its provider had failed; the repeat, made
\* later with that provider still enabled, was served the fallback result
C36_Witness ==
  \E s, t \in Slots :
     /\ Repeats(s, t) /\ BySynthesis(reqs[s])
     /\ reqs[s].outcomes # <<>>
     /\ reqs[t].startTime > reqs[s].endTime
     /\ EnabledProviders(config) # <<>>
     /\ reqs[t].hit
     /\ reqs[t].result.provider = "Fallback"
     /\ Len(reqs[t].result.schemas) = 1
(***************************************************************************)
(* C38: validateSchema is total: whatever parsed value it is handed, a     *)
(* scalar or an object whose @context or url holds a value that is not a   *)
(* string included, the call ends by returning a result record, never by   *)
(* throwing.                                                               *)
(***************************************************************************)
C38_ValidateSchemaNeverThrows ==
  Validated =>
    /\ val.pc = "returned"
    /\ ~val.threw
    /\ val.result.isValid = (val.result.errors = <<>>)
(***************************************************************************)
(* getConfig and the object it returns.  { ...this.config } copies the     *)
(* top-level properties of the configuration into a new object; the value  *)
(* of its providers property is the reference this.config.providers holds, *)
(* so the caller's object and the service share one providers table        *)
(* (aliased) for as long as neither replaces its providers property.       *)
(***************************************************************************)
\* the top-level properties a spread copies by value
TopLevel(cfg) ==
  [maxSchemas |-> cfg.maxSchemas, enableValidation |-> cfg.enableValidation,
   enableFallback |-> cfg.enableFallback]

\* the caller is between two of its calls of generateSchemas
BetweenCalls ==
  /\ nCalls < MaxCalls
  /\ \A s \in Slots : ~InFlight(reqs[s]) /\ ~Scraping(reqs[s])

\* getConfig()
GetConfig ==
  /\ ~held.taken
  /\ BetweenCalls
  /\ held' = [taken |-> TRUE, aliased |-> TRUE, mutations |-> 0,
              top |-> TopLevel(config)]
  /\ UNCHANGED <<env, config, cache, now, reqs, nCalls, nUpdates, nTicks>>
  /\ UNCHANGED <<appVars, fetchVars, pureVars>>

\* the assignments a caller makes to an entry of the providers table: it
\* switches a provider on or off, or moves the templates to the front
ProviderAssignments(providers) ==
  {[providers EXCEPT ![k].enabled = ~@] : k \in DOMAIN providers}
  \cup {[providers EXCEPT !.templates.priority = 0]}

\* the caller assigns to a top-level property of the object it holds:
\* held.maxSchemas = ...
MutateHeldTopLevel ==
  /\ held.taken
  /\ held.mutations < MaxMutations
  /\ BetweenCalls
  /\ held' = [held EXCEPT !.top.maxSchemas = @ + 1, !.mutations = @ + 1]
  /\ UNCHANGED <<env, config, cache, now, reqs, nCalls, nUpdates, nTicks>>
  /\ UNCHANGED <<appVars, fetchVars, pureVars>>

\* the caller assigns to a property of an entry of the providers table of
\* the object it holds: held.providers.openai.enabled = ...; the table is
\* the one the service reads
MutateHeldProvider ==
  /\ held.taken /\ held.aliased
  /\ held.mutations < MaxMutations
  /\ BetweenCalls
  /\ \E providers \in ProviderAssignments(config.providers) :
       config' = [config EXCEPT !.providers = providers]
  /\ held' = [held EXCEPT !.mutations = @ + 1]
  /\ UNCHANGED <<env, cache, now, reqs, nCalls, nUpdates, nTicks>>
  /\ UNCHANGED <<appVars, fetchVars, pureVars>>

ConfigNext ==
  \/ GetConfig
  \/ MutateHeldTopLevel
  \/ MutateHeldProvider
  \/ UpdateConfig
  \/ Start
  \/ \E s \in Slots : ScrapeSettles(s)
  \/ \E s \in Slots : ProviderSettles(s)
  \/ \E s \in Slots : ProviderTimeout(s)
  \/ Wait

\* the service with a caller that reads its configuration with getConfig
ConfigSpec == Init /\ [][ConfigNext]_vars

(***************************************************************************)
(* C39: the configuration the service reads changes only in a call of      *)
(* updateConfig: no assignment to the object getConfig returned, nor to    *)
(* an entry of its providers table, changes it, and so none changes the    *)
(* providers a later generateSchemas call contacts.                        *)
(***************************************************************************)
C39_ConfigChangesOnlyThroughUpdateConfig ==
  [][(config' # config \/ EnabledProviders(config') # EnabledProviders(config))
       => nUpdates' = nUpdates + 1]_vars
(***************************************************************************)
(* Calls that overlap.  generateSchemas suspends at each await, so a       *)
(* caller can call it again while an earlier call is awaiting its scrape   *)
(* or a provider; and a provider call that lost its race against the       *)
(* timer goes on running and settles later.                                *)
(***************************************************************************)
\* generateSchemas is called again, with the arguments of a call that is
\* still running
StartOver ==
  /\ reqs[OverSlot].pc = "idle"
  /\ \E s \in Slots \ {OverSlot} :
       /\ InFlight(reqs[s]) \/ Scraping(reqs[s])
       /\ LET r == [IdleReq EXCEPT !.url = reqs[s].url, !.given = reqs[s].given,
                                   !.text = reqs[s].given, !.info = reqs[s].info,
                                   !.startTime = now, !.call = reqs[s].call]
              begun == IF NotProvided(r.given)
                       THEN [req |-> [r EXCEPT !.pc = "scrape", !.fetched = TRUE],
                             cache |-> cache]
                       ELSE Lookup(r, r.given, cache, config, now)
          IN /\ reqs' = [reqs EXCEPT ![OverSlot] = begun.req]
             /\ cache' = begun.cache
  /\ UNCHANGED <<env, config, now, nCalls, nUpdates, nTicks>>
  /\ UNCHANGED <<appVars, fetchVars, pureVars, held>>

\* an abandoned provider call settles, in any of the ways it can end
AbandonedSettles(s) ==
  /\ \E i \in reqs[s].abandoned :
       \E outcome \in ProviderOutcomes(reqs[s].plan[i].key, env, reqs[s].text,
                                       reqs[s].url, reqs[s].info) :
          reqs' = [reqs EXCEPT ![s] = LateOutcome(reqs[s], i, outcome)]
  /\ UNCHANGED <<env, config, cache, now, nCalls, nUpdates, nTicks>>
  /\ UNCHANGED <<appVars, fetchVars, pureVars, held>>

\* the first call of a caller
StartFirst == nCalls = 0 /\ Start

\* a later call of the caller, made with the arguments of its previous
\* call once no call is running
StartRepeat ==
  /\ nCalls > 0
  /\ nCalls < MaxCalls
  /\ \A s \in Slots : ~InFlight(reqs[s]) /\ ~Scraping(reqs[s])
  /\ \E s \in Slots \ {OverSlot} :
       /\ reqs[s].call = nCalls
       /\ Begin(reqs[s].url, reqs[s].given, reqs[s].info)
  /\ UNCHANGED <<env, config, now, nUpdates, nTicks>>
  /\ UNCHANGED <<appVars, fetchVars, pureVars, held>>

\* time passes between two calls, less than the TTL in all
TickOnce == nTicks = 0 /\ Tick

OverlapNext ==
  \/ StartFirst
  \/ StartRepeat
  \/ StartOver
  \/ \E s \in Slots : ScrapeSettles(s)
  \/ \E s \in Slots : ProviderSettles(s)
  \/ \E s \in Slots : ProviderTimeout(s)
  \/ \E s \in Slots : AbandonedSettles(s)
  \/ Wait
  \/ TickOnce

\* the service with a caller that does not wait for its calls to end
OverlapSpec == Init /\ [][OverlapNext]_vars

\* what the caller of the call of r has got or will get, and the call's
\* place in its code
Visible(r) ==
  [pc |-> r.pc, idx |-> r.idx, schemas |-> r.schemas, usedProvider |-> r.usedProvider,
   result |-> r.result, error |-> r.error, lastError |-> r.lastError]

(***************************************************************************)
(* C37: the settlement of a provider call after its timer has fired, with  *)
(* schemas or with an error, changes nothing: neither the schemas and the  *)
(* provider name the call that abandoned it returns, nor the progress of   *)
(* that call, nor any cache entry.  (The step is one in which a call that *)
(* stays the same, with the same provider outcomes recorded, has fewer    *)
(* abandoned provider calls outstanding.)                                 *)
(***************************************************************************)
C37_LateSettlementHasNoEffect ==
  [][\A s \in Slots :
       (/\ reqs'[s].abandoned # reqs[s].abandoned
        /\ reqs'[s].abandoned \subseteq reqs[s].abandoned
        /\ reqs'[s].call = reqs[s].call
        /\ reqs'[s].outcomes = reqs[s].outcomes)
       => /\ Visible(reqs'[s]) = Visible(reqs[s])
          /\ cache' = cache]_vars

\* a call returned the schemas of its second provider after the first had
\* timed out, and the abandoned call of the first has settled since
C37_Witness ==
  \E s \in Slots :
     /\ reqs[s].pc = "done"
     /\ Len(reqs[s].outcomes) = 2
     /\ reqs[s].outcomes[1].kind = "timeout"
     /\ reqs[s].outcomes[2].kind = "nonempty"
     /\ reqs[s].abandoned = {}
     /\ reqs[s].result.provider = reqs[s].plan[2].name
\* the call of slot s and the call of the last slot overlap: the second was
\* made with the arguments of the first while the first was still running
Pair(s) ==
  /\ s # OverSlot
  /\ reqs[s].call > 0
  /\ reqs[OverSlot].pc # "idle"
  /\ reqs[OverSlot].call = reqs[s].call
  /\ reqs[OverSlot].url = reqs[s].url
  /\ reqs[OverSlot].given = reqs[s].given
  /\ reqs[OverSlot].info = reqs[s].info

\* both have returned, for one cache key
BothReturned(s) ==
  /\ HasReturned(s) /\ HasReturned(OverSlot)
  /\ reqs[s].key = reqs[OverSlot].key

\* when the later of the two returned
LastEnd(s) ==
  IF reqs[s].endTime >= reqs[OverSlot].endTime
  THEN reqs[s].endTime ELSE reqs[OverSlot].endTime

\* the cache entry holds the result
Holds(entry, result) ==
  /\ entry.schemas = result.schemas
  /\ entry.provider = result.provider
  /\ entry.validationResults = result.validationResults

\* no error: two overlapping calls that were handed a page text and a
\* profile do not end in an error
C33_NoError ==
  \A s \in Slots :
     (Pair(s) /\ ~NotProvided(reqs[s].given) /\ ~reqs[s].info.null)
     => reqs[s].pc # "error" /\ reqs[OverSlot].pc # "error"

\* one entry: once both have returned and until a later call begins, the
\* cache holds under their key the result of one that returned last
C33_OneEntry ==
  \A s \in Slots :
     (Pair(s) /\ BothReturned(s) /\ \A t \in Slots : reqs[t].call <= reqs[s].call)
     => /\ reqs[s].key \in DOMAIN cache
        /\ \E w \in {s, OverSlot} :
              /\ reqs[w].endTime = LastEnd(s)
              /\ Holds(cache[reqs[s].key], reqs[w].result)

\* later calls: a call for the same lookup begun after both returned, less
\* than the TTL after the later of them, is served what one that returned
\* last was given
C33_LaterCalls ==
  \A s, t \in Slots :
     (/\ Pair(s) /\ BothReturned(s)
      /\ (Generated(s) \/ Generated(OverSlot))
      /\ reqs[t].call > reqs[s].call
      /\ SameLookup(reqs[s], reqs[t])
      /\ reqs[t].startTime - LastEnd(s) < CACHE_TTL)
     => /\ reqs[t].pc = "done"
        /\ reqs[t].hit
        /\ \E w \in {s, OverSlot} :
              /\ reqs[w].endTime = LastEnd(s)
              /\ reqs[t].result.schemas = reqs[w].result.schemas
              /\ reqs[t].result.provider = reqs[w].result.provider

\* the last writer wins: a call that returns in this step leaves the cache
\* with its own result under its key, whatever was stored there
C33_Returning ==
  \A s \in Slots :
     (reqs[s].pc # "done" /\ reqs'[s].pc = "done")
     => /\ reqs'[s].key \in DOMAIN cache'
        /\ Holds(cache'[reqs'[s].key], reqs'[s].result)

(***************************************************************************)
(* C33: when a generateSchemas call is made with the arguments of a call   *)
(* that has not stored its result yet, neither ends in an error; each, as  *)
(* it returns, leaves its result in the cache under its key, so that once  *)
(* both have returned the one entry of their key is the result of the one  *)
(* that returned last; and a later call for the same lookup within the TTL *)
(* is served that entry.                                                   *)
(***************************************************************************)
C33_OverlappingCallsLastWriterWins ==
  /\ [](C33_NoError /\ C33_OneEntry /\ C33_LaterCalls)
  /\ [][C33_Returning]_vars

\* the second of two overlapping calls returned later than the first and
\* with other schemas; the cache holds its result, and a later call was
\* served it
C33_Witness ==
  \E s, t \in Slots :
     /\ Pair(s) /\ BothReturned(s)
     /\ Generated(s) /\ Generated(OverSlot)
     /\ reqs[OverSlot].endTime > reqs[s].endTime
     /\ reqs[OverSlot].result.schemas # reqs[s].result.schemas
     /\ reqs[s].key \in DOMAIN cache
     /\ Holds(cache[reqs[s].key], reqs[OverSlot].result)
     /\ reqs[t].call > reqs[s].call
     /\ reqs[t].startTime > reqs[OverSlot].endTime
     /\ reqs[t].hit
     /\ reqs[t].result.schemas = reqs[OverSlot].result.schemas

=============================================================================
